---- MODULE Spec2Model ----
(***************************************************************************)
(* Model of the pure functions of the localhake blog:                      *)
(*   parseYouTubeUrl            (YouTube component)                        *)
(*   parseAmazonUrl             (AffiliateLink component)                  *)
(*   generateBlogPostingJsonLd  (BlogPostStructuredData component)         *)
(*   generateArticleJsonLd      (DocItem wrapper)                          *)
(*   BlogPostPageWrapper, resolveImageUrl, mapFrontMatterToMetaTags        *)
(* and of its components YouTube, AffiliateLink and InfoCard (formatTime), *)
(* a rendered component being the tree of its elements.                    *)
(* A JavaScript string is a sequence of one-character strings.  The URL    *)
(* constructor the validators call is modelled by what the WHATWG parser   *)
(* does on the characters the inputs are drawn from (no '%', no '[' ']',   *)
(* no "file:" scheme, no "xn--" label).  A JavaScript object is the list   *)
(* of its keys with their values; JSON.stringify and JSON.parse work on    *)
(* the characters of the text.  Where the identity of an object matters,   *)
(* objects live in a heap and are held by reference.                       *)
(***************************************************************************)
EXTENDS Integers, Sequences, FiniteSets, TLC

VARIABLES arb, input, ytResult, amzResult, amazonTlds, calls, page, out,
          componentProps, rendered, heap, docs, writes

validatorVars == <<arb, input, ytResult, amzResult, amazonTlds, calls>>

seoVars == <<page, out>>

componentVars == <<componentProps, rendered>>

heapVars == <<heap, docs, writes>>

vars == <<arb, input, ytResult, amzResult, amazonTlds, calls, page, out,
          componentProps, rendered, heap, docs, writes>>

----------------------------------------------------------------------------
(* Characters and strings                                                  *)

Lower == <<"a","b","c","d","e","f","g","h","i","j","k","l","m",
           "n","o","p","q","r","s","t","u","v","w","x","y","z">>

Upper == <<"A","B","C","D","E","F","G","H","I","J","K","L","M",
           "N","O","P","Q","R","S","T","U","V","W","X","Y","Z">>

Digits == <<"0","1","2","3","4","5","6","7","8","9">>

LowerSet == {Lower[i] : i \in 1..26}

UpperSet == {Upper[i] : i \in 1..26}

DigitSet == {Digits[i] : i \in 1..10}

AlphaSet == LowerSet \cup UpperSet

AlnumSet == AlphaSet \cup DigitSet

(* String.prototype.trim removes these (of the characters modelled).       *)
JsWhiteSpace == {" ", "\t"}

RECURSIVE IndexFrom(_, _, _)
(* Least index >= i of a character of set in s, 0 when there is none.      *)
IndexFrom(s, set, i) ==
  IF i > Len(s) THEN 0
  ELSE IF s[i] \in set THEN i
  ELSE IndexFrom(s, set, i + 1)

RECURSIVE SkipFrom(_, _, _)
(* Least index >= i of a character NOT in set, Len(s)+1 when none.         *)
SkipFrom(s, set, i) ==
  IF i > Len(s) THEN Len(s) + 1
  ELSE IF s[i] \notin set THEN i
  ELSE SkipFrom(s, set, i + 1)

RECURSIVE SkipBack(_, _, _)
(* Greatest index <= i of a character NOT in set, 0 when none.             *)
SkipBack(s, set, i) ==
  IF i < 1 THEN 0
  ELSE IF s[i] \notin set THEN i
  ELSE SkipBack(s, set, i - 1)

RECURSIVE LastIndexFrom(_, _, _)
(* Greatest index <= i of the character c in s, 0 when there is none.      *)
LastIndexFrom(s, c, i) ==
  IF i < 1 THEN 0
  ELSE IF s[i] = c THEN i
  ELSE LastIndexFrom(s, c, i - 1)

Slice(s, from) == SubSeq(s, from, Len(s))

StripSet(s, set) ==
  LET a == SkipFrom(s, set, 1)
      b == SkipBack(s, set, Len(s))
  IN  IF a > b THEN <<>> ELSE SubSeq(s, a, b)

RECURSIVE Split(_, _)
(* String.prototype.split on any character of seps: k separators give     *)
(* k+1 pieces, empty pieces included.                                      *)
Split(s, seps) ==
  LET k == IndexFrom(s, seps, 1)
  IN  IF k = 0 THEN <<s>>
      ELSE <<SubSeq(s, 1, k - 1)>> \o Split(Slice(s, k + 1), seps)

RECURSIVE Concat(_)
Concat(ss) == IF ss = <<>> THEN <<>> ELSE Head(ss) \o Concat(Tail(ss))

LowerChar(c) ==
  IF c \in UpperSet THEN Lower[CHOOSE i \in 1..26 : Upper[i] = c] ELSE c

toLowerCase(s) == [i \in 1..Len(s) |-> LowerChar(s[i])]

StartsWith(s, p) == Len(s) >= Len(p) /\ SubSeq(s, 1, Len(p)) = p

trim(s) == StripSet(s, JsWhiteSpace)

----------------------------------------------------------------------------
(* new URL(input): the WHATWG basic URL parser without a base URL.         *)
(* The result is either Failure (the constructor throws TypeError) or a    *)
(* record of the URL's components.                                         *)

Failure == [ok |-> FALSE]

(* Characters the parser strips from both ends (C0 control or space).      *)
C0OrSpace == {" ", "\t"}

(* Characters the parser removes wherever they are (ASCII tab, newline).   *)
TabOrNewline == {"\t"}

SpecialSchemes ==
  { <<"h","t","t","p">>, <<"h","t","t","p","s">>, <<"f","t","p">>,
    <<"w","s">>, <<"w","s","s">> }

SchemeChars == AlnumSet \cup {"+", "-", "."}

(* Forbidden host code points, and the forbidden domain code points that   *)
(* add '%' to them.                                                        *)
ForbiddenHostCodePoints ==
  {" ", "\t", "#", "/", ":", "<", ">", "?", "@", "[", "\\", "]", "^", "|"}

ForbiddenDomainCodePoints == ForbiddenHostCodePoints \cup {"%"}

(* The path and query percent-encode sets contain the space; '?' and '#'   *)
(* never reach the encoder because they end the component.                 *)
PercentEncodeSet == {" "}

RECURSIVE utf8PercentEncode(_)
utf8PercentEncode(s) ==
  IF s = <<>> THEN <<>>
  ELSE (IF Head(s) \in PercentEncodeSet THEN <<"%","2","0">> ELSE <<Head(s)>>)
       \o utf8PercentEncode(Tail(s))

RECURSIVE percentDecode(_)
(* Percent-decoding of the sequences the encoder above produces.           *)
percentDecode(s) ==
  IF s = <<>> THEN <<>>
  ELSE IF StartsWith(s, <<"%","2","0">>) THEN <<" ">> \o percentDecode(Slice(s, 4))
  ELSE <<Head(s)>> \o percentDecode(Tail(s))

DigitValue(c) ==
  IF c \in DigitSet THEN (CHOOSE i \in 1..10 : Digits[i] = c) - 1
  ELSE (CHOOSE i \in 1..26 : Lower[i] = LowerChar(c)) + 9

RadixDigits(r) ==
  IF r = 16 THEN DigitSet \cup {"a","b","c","d","e","f","A","B","C","D","E","F"}
  ELSE IF r = 8 THEN {"0","1","2","3","4","5","6","7"}
  ELSE DigitSet

RECURSIVE NumberValue(_, _, _)
NumberValue(s, r, acc) ==
  IF s = <<>> THEN acc ELSE NumberValue(Tail(s), r, acc * r + DigitValue(Head(s)))

(* The IPv4 number parser: -1 is failure.  Numbers of more than seven      *)
(* digits do not occur in the hosts drawn below and are read as failure.   *)
parseIPv4Number(s) ==
  IF s = <<>> THEN -1
  ELSE LET hex == Len(s) >= 2 /\ s[1] = "0" /\ s[2] \in {"x", "X"}
           oct == ~hex /\ Len(s) >= 2 /\ s[1] = "0"
           r == IF hex THEN 16 ELSE IF oct THEN 8 ELSE 10
           rest == IF hex THEN Slice(s, 3) ELSE IF oct THEN Slice(s, 2) ELSE s
       IN  IF \E i \in 1..Len(rest) : rest[i] \notin RadixDigits(r) THEN -1
           ELSE IF Len(rest) > 7 THEN -1
           ELSE NumberValue(rest, r, 0)

HostParts(h) ==
  LET parts == Split(h, {"."})
  IN  IF Len(parts) > 1 /\ parts[Len(parts)] = <<>>
      THEN SubSeq(parts, 1, Len(parts) - 1) ELSE parts

endsInANumber(h) ==
  LET parts == Split(h, {"."})
      p == HostParts(h)
      last == p[Len(p)]
  IN  /\ ~(Len(parts) = 1 /\ parts[1] = <<>>)
      /\ \/ (last # <<>> /\ \A i \in 1..Len(last) : last[i] \in DigitSet)
         \/ parseIPv4Number(last) # -1

RECURSIVE Pow256(_)
Pow256(n) == IF n = 0 THEN 1 ELSE 256 * Pow256(n - 1)

RECURSIVE Decimal(_)
Decimal(n) == IF n < 10 THEN <<Digits[n + 1]>> ELSE Decimal(n \div 10) \o <<Digits[(n % 10) + 1]>>

(* The IPv4 parser followed by the IPv4 serializer: Failure or the dotted  *)
(* decimal form.  The last number fills the octets the others leave.       *)
parseIPv4(h) ==
  LET p == HostParts(h)
      n == Len(p)
      nums == [i \in 1..n |-> parseIPv4Number(p[i])]
      octet(j) == IF j < n THEN nums[j] ELSE (nums[n] \div Pow256(4 - j)) % 256
  IN  IF n > 4 \/ \E i \in 1..n : nums[i] = -1 THEN Failure
      ELSE IF \E i \in 1..(n - 1) : nums[i] > 255 THEN Failure
      ELSE IF n > 1 /\ nums[n] >= Pow256(5 - n) THEN Failure
      ELSE [ok |-> TRUE,
            host |-> Decimal(octet(1)) \o <<".">> \o Decimal(octet(2)) \o <<".">>
                     \o Decimal(octet(3)) \o <<".">> \o Decimal(octet(4))]

(* The host parser.  A special scheme's host is a domain: lower-cased,     *)
(* checked for forbidden code points, read as IPv4 when it ends in a       *)
(* number.  Any other scheme's host is opaque: kept as written.            *)
hostParser(h, isOpaque) ==
  IF isOpaque
  THEN IF \E i \in 1..Len(h) : h[i] \in ForbiddenHostCodePoints THEN Failure
       ELSE [ok |-> TRUE, host |-> h]
  ELSE LET asciiDomain == toLowerCase(h)
       IN  IF asciiDomain = <<>> THEN Failure
           ELSE IF \E i \in 1..Len(asciiDomain) : asciiDomain[i] \in ForbiddenDomainCodePoints
           THEN Failure
           ELSE IF endsInANumber(asciiDomain) THEN parseIPv4(asciiDomain)
           ELSE [ok |-> TRUE, host |-> asciiDomain]

(* Port state: digits only, at most 65535.                                 *)
portOk(p) ==
  /\ \A i \in 1..Len(p) : p[i] \in DigitSet
  /\ LET q == Slice(p, SkipFrom(p, {"0"}, 1))
     IN  Len(q) <= 5 /\ NumberValue(q, 10, 0) <= 65535

(* Authority and host states on the text between the slashes and the path. *)
parseAuthority(a, special) ==
  LET at == LastIndexFrom(a, "@", Len(a))
      hostport == Slice(a, at + 1)
      colon == IndexFrom(hostport, {":"}, 1)
      hostStr == IF colon = 0 THEN hostport ELSE SubSeq(hostport, 1, colon - 1)
      port == IF colon = 0 THEN <<>> ELSE Slice(hostport, colon + 1)
  IN  IF at > 0 /\ hostport = <<>> THEN Failure
      ELSE IF colon # 0 /\ hostStr = <<>> THEN Failure
      ELSE IF special /\ hostStr = <<>> THEN Failure
      ELSE IF ~portOk(port) THEN Failure
      ELSE hostParser(hostStr, ~special)

RECURSIVE pathSegments(_, _, _)
(* Path state: "." is dropped, ".." drops the segment before it, every     *)
(* other piece is percent-encoded and appended.                            *)
pathSegments(pieces, i, path) ==
  IF i > Len(pieces) THEN path
  ELSE LET piece == pieces[i]
           last == (i = Len(pieces))
           shortened == IF path = <<>> THEN path ELSE SubSeq(path, 1, Len(path) - 1)
       IN  IF piece = <<".", ".">>
           THEN pathSegments(pieces, i + 1, IF last THEN Append(shortened, <<>>) ELSE shortened)
           ELSE IF piece = <<".">>
           THEN pathSegments(pieces, i + 1, IF last THEN Append(path, <<>>) ELSE path)
           ELSE pathSegments(pieces, i + 1, Append(path, utf8PercentEncode(piece)))

(* URL path serializer for a list path.                                    *)
serializePath(path) == Concat([i \in 1..Len(path) |-> <<"/">> \o path[i]])

(* Path start and path states on the text between authority and '?'/'#'.   *)
parsePath(p, special) ==
  LET slashes == IF special THEN {"/", "\\"} ELSE {"/"}
      body == IF p # <<>> /\ p[1] \in slashes THEN Tail(p) ELSE p
  IN  IF ~special /\ p = <<>> THEN <<>>
      ELSE serializePath(pathSegments(Split(body, slashes), 1, <<>>))

(* Everything after "scheme:".                                             *)
parseAfterScheme(scheme, rest) ==
  LET special == scheme \in SpecialSchemes
      hasAuthority == special \/ StartsWith(rest, <<"/", "/">>)
      opaquePath == ~special /\ ~StartsWith(rest, <<"/">>)
      afterSlashes ==
        IF special THEN Slice(rest, SkipFrom(rest, {"/", "\\"}, 1))
        ELSE IF hasAuthority THEN Slice(rest, 3)
        ELSE rest
      authEnd == IF hasAuthority
                 THEN IndexFrom(afterSlashes,
                                IF special THEN {"/", "\\", "?", "#"} ELSE {"/", "?", "#"}, 1)
                 ELSE 1
      authority == IF ~hasAuthority THEN <<>>
                   ELSE IF authEnd = 0 THEN afterSlashes
                   ELSE SubSeq(afterSlashes, 1, authEnd - 1)
      tail == IF ~hasAuthority THEN afterSlashes
              ELSE IF authEnd = 0 THEN <<>>
              ELSE Slice(afterSlashes, authEnd)
      hash == IndexFrom(tail, {"#"}, 1)
      noFragment == IF hash = 0 THEN tail ELSE SubSeq(tail, 1, hash - 1)
      qm == IndexFrom(noFragment, {"?"}, 1)
      pathText == IF qm = 0 THEN noFragment ELSE SubSeq(noFragment, 1, qm - 1)
      queryText == IF qm = 0 THEN <<>> ELSE Slice(noFragment, qm + 1)
      host == IF hasAuthority THEN parseAuthority(authority, special)
              ELSE [ok |-> TRUE, host |-> <<>>]
  IN  IF ~host.ok THEN Failure
      ELSE [ok |-> TRUE,
            protocol |-> scheme \o <<":">>,
            hostname |-> host.host,
            pathname |-> IF opaquePath THEN pathText ELSE parsePath(pathText, special),
            query |-> utf8PercentEncode(queryText)]

(* new URL(s): scheme start and scheme states, then the rest.              *)
newURL(s) ==
  LET u == SelectSeq(StripSet(s, C0OrSpace), LAMBDA c : c \notin TabOrNewline)
      k == SkipFrom(u, SchemeChars, 1)
  IN  IF u = <<>> \/ u[1] \notin AlphaSet THEN Failure
      ELSE IF k > Len(u) \/ u[k] # ":" THEN Failure
      ELSE parseAfterScheme(toLowerCase(SubSeq(u, 1, k - 1)), Slice(u, k + 1))

(* urlObj.searchParams.get(name): the application/x-www-form-urlencoded    *)
(* parser on the query, then the first value whose name matches; <<"null">>*)
(* is returned through NoParam when there is none.                         *)
formDecode(s) ==
  percentDecode([i \in 1..Len(s) |-> IF s[i] = "+" THEN " " ELSE s[i]])

searchParams(query) ==
  LET raw == SelectSeq(Split(query, {"&"}), LAMBDA p : p # <<>>)
  IN  [i \in 1..Len(raw) |->
         LET eq == IndexFrom(raw[i], {"="}, 1)
         IN  [name  |-> formDecode(IF eq = 0 THEN raw[i] ELSE SubSeq(raw[i], 1, eq - 1)),
              value |-> formDecode(IF eq = 0 THEN <<>> ELSE Slice(raw[i], eq + 1))]]

searchParamsGet(urlObj, name) ==
  LET ps == searchParams(urlObj.query)
      hits == {i \in 1..Len(ps) : ps[i].name = name}
  IN  IF hits = {} THEN [found |-> FALSE]
      ELSE [found |-> TRUE,
            value |-> ps[CHOOSE i \in hits : \A j \in hits : i <= j].value]

----------------------------------------------------------------------------
(* JavaScript values and completions                                        *)

Null == [t |-> "null"]

Undefined == [t |-> "undefined"]

Num(n) == [t |-> "number", n |-> n]

Bool(b) == [t |-> "boolean", b |-> b]

Obj == [t |-> "object"]

Str(s) == [t |-> "string", s |-> s]

typeof(v) == IF v.t = "null" THEN "object" ELSE v.t

(* !v                                                                      *)
Falsy(v) ==
  \/ v.t \in {"null", "undefined"}
  \/ (v.t = "number" /\ v.n = 0)
  \/ (v.t = "boolean" /\ ~v.b)
  \/ (v.t = "string" /\ v.s = <<>>)

(* A call either returns a value or throws.                                *)
Return(v) == [kind |-> "return", value |-> v]

Throw == [kind |-> "throw"]

(* url.trim(): a TypeError on a value that has no trim method.             *)
callTrim(v) == IF v.t = "string" THEN Return(Str(trim(v.s))) ELSE Throw

(* The constructor's outcome as a completion: a URL object or a TypeError. *)
completionOfURL(u) == IF u.ok THEN Return(u) ELSE Throw

(* new URL(s) as a completion.                                             *)
constructURL(s) == completionOfURL(newURL(s))

----------------------------------------------------------------------------
(* YouTube component: parseYouTubeUrl                                      *)

ErrNoVideoUrl == "No video URL provided"

ErrInvalidUrlFormat == "Invalid URL format"

ErrNotYouTube == "URL is not a YouTube link"

ErrCouldNotExtract == "Could not extract video ID from URL"

ErrInvalidVideoId == "Invalid video ID format"

ErrFailedToParse == "Failed to parse YouTube URL"

ParsedVideoId(videoId, error) == [videoId |-> videoId, error |-> error]

VideoIdChars == AlnumSet \cup {"_", "-"}

(* const hostname = urlObj.hostname.toLowerCase()                          *)
hostname(urlObj) == toLowerCase(urlObj.hostname)

(* A host test that lets every subdomain of youtube.com through.          *)
isYouTube_AnySubdomain(h) ==
  \/ h = <<"y","o","u","t","u",".","b","e">>
  \/ h = <<"y","o","u","t","u","b","e",".","c","o","m">>
  \/ (Len(h) > 12 /\ Slice(h, Len(h) - 11) = <<".","y","o","u","t","u","b","e",".","c","o","m">>)

isYouTube(h) ==
  \/ h = <<"y","o","u","t","u",".","b","e">>
  \/ h = <<"y","o","u","t","u","b","e",".","c","o","m">>
  \/ h = <<"w","w","w",".","y","o","u","t","u","b","e",".","c","o","m">>
  \/ h = <<"m",".","y","o","u","t","u","b","e",".","c","o","m">>

(* s.slice(n).split('/')[0]                                                *)
firstSegmentAfter(s, n) == Split(Slice(s, n + 1), {"/"})[1]

(* The extraction without the legacy /v/ shape.                           *)
extractVideoId_NoLegacy(h, urlObj) ==
  IF h = <<"y","o","u","t","u",".","b","e">>
  THEN Str(firstSegmentAfter(urlObj.pathname, 1))
  ELSE IF urlObj.pathname = <<"/","w","a","t","c","h">>
  THEN LET v == searchParamsGet(urlObj, <<"v">>)
       IN  IF v.found THEN Str(v.value) ELSE Null
  ELSE IF StartsWith(urlObj.pathname, <<"/","e","m","b","e","d","/">>)
  THEN Str(firstSegmentAfter(urlObj.pathname, 7))
  ELSE Null

(* The extraction that looks at the path before the host.                 *)
extractVideoId_PathFirst(h, urlObj) ==
  IF urlObj.pathname = <<"/","w","a","t","c","h">>
  THEN LET v == searchParamsGet(urlObj, <<"v">>)
       IN  IF v.found THEN Str(v.value) ELSE Null
  ELSE IF StartsWith(urlObj.pathname, <<"/","e","m","b","e","d","/">>)
  THEN Str(firstSegmentAfter(urlObj.pathname, 7))
  ELSE IF StartsWith(urlObj.pathname, <<"/","v","/">>)
  THEN Str(firstSegmentAfter(urlObj.pathname, 3))
  ELSE IF h = <<"y","o","u","t","u",".","b","e">>
  THEN Str(firstSegmentAfter(urlObj.pathname, 1))
  ELSE Null

(* The four URL shapes; Null when none applies.                            *)
extractVideoId(h, urlObj) ==
  IF h = <<"y","o","u","t","u",".","b","e">>
  THEN Str(firstSegmentAfter(urlObj.pathname, 1))
  ELSE IF urlObj.pathname = <<"/","w","a","t","c","h">>
  THEN LET v == searchParamsGet(urlObj, <<"v">>)
       IN  IF v.found THEN Str(v.value) ELSE Null
  ELSE IF StartsWith(urlObj.pathname, <<"/","e","m","b","e","d","/">>)
  THEN Str(firstSegmentAfter(urlObj.pathname, 7))
  ELSE IF StartsWith(urlObj.pathname, <<"/","v","/">>)
  THEN Str(firstSegmentAfter(urlObj.pathname, 3))
  ELSE Null

(* The identifier left as extracted.                                      *)
stripQuery_Keep(s) == s

(* videoId.split('?')[0]                                                   *)
stripQuery(s) == Split(s, {"?"})[1]

(* /^[a-zA-Z0-9_-]+$/.test(s)                                              *)
matchesVideoIdFormat(s) == s # <<>> /\ \A i \in 1..Len(s) : s[i] \in VideoIdChars

(* A format failure that still hands the identifier back.                 *)
validateVideoId_KeepsId(videoId) ==
  IF Falsy(videoId)
  THEN ParsedVideoId(Null, Str(ErrCouldNotExtract))
  ELSE LET id == Split(videoId.s, {"?"})[1]
       IN  IF ~(id # <<>> /\ \A i \in 1..Len(id) : id[i] \in VideoIdChars)
           THEN ParsedVideoId(Str(id), Str(ErrInvalidVideoId))
           ELSE ParsedVideoId(Str(id), Null)

validateVideoId(videoId) ==
  IF Falsy(videoId)
  THEN ParsedVideoId(Null, Str(ErrCouldNotExtract))
  ELSE LET id == stripQuery(videoId.s)
       IN  IF ~matchesVideoIdFormat(id)
           THEN ParsedVideoId(Null, Str(ErrInvalidVideoId))
           ELSE ParsedVideoId(Str(id), Null)

(* An unsupported host reported with the reason of an unparseable URL.    *)
checkHost_SharedReason(urlObj, h) ==
  IF ~isYouTube(h)
  THEN Return(ParsedVideoId(Null, Str(ErrInvalidUrlFormat)))
  ELSE Return(validateVideoId(extractVideoId(h, urlObj)))

(* From the host test to the result, given urlObj and hostname.            *)
checkHost(urlObj, h) ==
  IF ~isYouTube(h)
  THEN Return(ParsedVideoId(Null, Str(ErrNotYouTube)))
  ELSE Return(validateVideoId(extractVideoId(h, urlObj)))

(* The path shape tested before the host.                                  *)
afterConstruct_ShapeFirst(made) ==
  IF made.kind = "throw"
  THEN Return(ParsedVideoId(Null, Str(ErrInvalidUrlFormat)))
  ELSE IF Falsy(extractVideoId(hostname(made.value), made.value))
  THEN Return(ParsedVideoId(Null, Str(ErrCouldNotExtract)))
  ELSE checkHost(made.value, hostname(made.value))

(* The inner try/catch around new URL, then the rest of the try block.     *)
afterConstruct(made) ==
  IF made.kind = "throw"
  THEN Return(ParsedVideoId(Null, Str(ErrInvalidUrlFormat)))
  ELSE checkHost(made.value, hostname(made.value))

(* The body of the outer try block: a completion.                          *)
tryParseYouTubeUrl(trimmedUrl) == afterConstruct(constructURL(trimmedUrl))

(* The outer catch: whatever the try block throws becomes a result.        *)
catchFailedToParse(body) ==
  IF body.kind = "throw"
  THEN Return(ParsedVideoId(Null, Str(ErrFailedToParse)))
  ELSE body

(* From const trimmedUrl = url.trim() on.                                  *)
parseTrimmedVideoUrl(trimmed) ==
  IF trimmed.kind = "throw" THEN Throw
  ELSE IF Falsy(trimmed.value)
  THEN Return(ParsedVideoId(Null, Str(ErrNoVideoUrl)))
  ELSE catchFailedToParse(tryParseYouTubeUrl(trimmed.value.s))

(* The entry guard without the typeof test.                               *)
parseYouTubeUrl_NoTypeCheck(url) ==
  IF Falsy(url)
  THEN Return(ParsedVideoId(Null, Str(ErrNoVideoUrl)))
  ELSE parseTrimmedVideoUrl(callTrim(url))

parseYouTubeUrl(url) ==
  IF Falsy(url) \/ typeof(url) # "string"
  THEN Return(ParsedVideoId(Null, Str(ErrNoVideoUrl)))
  ELSE parseTrimmedVideoUrl(callTrim(url))

----------------------------------------------------------------------------
(* AffiliateLink component: parseAmazonUrl                                 *)

ErrNoAmazonUrl == "No Amazon URL provided"

ErrNotAmazon == "URL is not an Amazon link"

ParsedAmazonUrl(url, error) == [url |-> url, error |-> error]

AMAZON_TLDS ==
  << <<"c","o","m">>,
     <<"c","o",".","u","k">>,
     <<"d","e">>,
     <<"f","r">>,
     <<"i","t">>,
     <<"e","s">>,
     <<"c","a">>,
     <<"c","o","m",".","a","u">>,
     <<"c","o",".","j","p">>,
     <<"i","n">>,
     <<"c","o","m",".","b","r">>,
     <<"c","o","m",".","m","x">>,
     <<"n","l">>,
     <<"s","g">>,
     <<"a","e">>,
     <<"s","a">> >>

(* A loop that takes the entries out of the array as it goes               *)
(* (while (tld = AMAZON_TLDS.shift())).                                    *)
forOfAmazonTlds_Shift(tlds) == <<>>

(* The module-level array after for (const tld of AMAZON_TLDS) has run:    *)
(* the loop reads the entries through the iterator and writes none.        *)
forOfAmazonTlds(tlds) == tlds

(* A host test by substring: every host that mentions amazon passes.      *)
isValidAmazonHostname_Contains(h) ==
  LET lowerHostname == toLowerCase(h)
  IN  \/ lowerHostname = <<"a","m","z","n",".","t","o">>
      \/ \E i \in 1..Len(lowerHostname) : StartsWith(Slice(lowerHostname, i), <<"a","m","a","z","o","n">>)

isValidAmazonHostname(h) ==
  LET lowerHostname == toLowerCase(h)
  IN  \/ lowerHostname = <<"a","m","z","n",".","t","o">>
      \/ \E i \in 1..Len(amazonTlds) :
           LET baseDomain == <<"a","m","a","z","o","n",".">> \o amazonTlds[i]
           IN  \/ lowerHostname = baseDomain
               \/ lowerHostname = <<"w","w","w",".">> \o baseDomain
               \/ lowerHostname = <<"s","m","i","l","e",".">> \o baseDomain

(* No protocol test.                                                      *)
protocolRejected_Never(urlObj) == FALSE

(* urlObj.protocol !== 'http:' && urlObj.protocol !== 'https:'             *)
protocolRejected(urlObj) ==
  /\ urlObj.protocol # <<"h","t","t","p",":">>
  /\ urlObj.protocol # <<"h","t","t","p","s",":">>

(* A protocol failure with a reason of its own.                           *)
rejectProtocol_OwnReason == ParsedAmazonUrl(Null, Str("Unsupported protocol"))

(* return { url: null, error: 'Invalid URL format' } of the protocol test  *)
rejectProtocol == ParsedAmazonUrl(Null, Str(ErrInvalidUrlFormat))

(* The accepted URL handed back in normalised (lower-cased) form.         *)
acceptAmazonUrl_Normalized(trimmedUrl) ==
  ParsedAmazonUrl(Str(toLowerCase(trimmedUrl.s)), Null)

(* return { url: trimmedUrl, error: null }                                 *)
acceptAmazonUrl(trimmedUrl) == ParsedAmazonUrl(trimmedUrl, Null)

(* From the inner try/catch around new URL to the result.                  *)
checkAmazonUrl(trimmedUrl, made) ==
  IF made.kind = "throw"
  THEN Return(ParsedAmazonUrl(Null, Str(ErrInvalidUrlFormat)))
  ELSE IF protocolRejected(made.value)
  THEN Return(rejectProtocol)
  ELSE IF ~isValidAmazonHostname(made.value.hostname)
  THEN Return(ParsedAmazonUrl(Null, Str(ErrNotAmazon)))
  ELSE Return(acceptAmazonUrl(trimmedUrl))

(* From const trimmedUrl = url.trim() on.                                  *)
parseTrimmedAmazonUrl(trimmed) ==
  IF trimmed.kind = "throw" THEN Throw
  ELSE IF Falsy(trimmed.value)
  THEN Return(ParsedAmazonUrl(Null, Str(ErrNoAmazonUrl)))
  ELSE checkAmazonUrl(trimmed.value, constructURL(trimmed.value.s))

parseAmazonUrl(url) ==
  IF Falsy(url) \/ typeof(url) # "string"
  THEN Return(ParsedAmazonUrl(Null, Str(ErrNoAmazonUrl)))
  ELSE parseTrimmedAmazonUrl(callTrim(url))

----------------------------------------------------------------------------
(* JavaScript objects: the own keys in insertion order and their values.   *)

Object(keys, at) == [t |-> "object", keys |-> keys, at |-> at]

hasOwn(o, k) == k \in DOMAIN o.at

(* o[k] = v                                                                *)
setProp(o, k, v) ==
  Object(IF hasOwn(o, k) THEN o.keys ELSE Append(o.keys, k), (k :> v) @@ o.at)

(* { k1: v1, k2: v2, ... } from the list of <<key, value>> pairs.          *)
ObjectLiteral(entries) ==
  Object([i \in 1..Len(entries) |-> entries[i][1]],
         [k \in {entries[i][1] : i \in 1..Len(entries)} |->
            entries[CHOOSE i \in 1..Len(entries) : entries[i][1] = k][2]])

(* a || b                                                                  *)
Or(a, b) == IF Falsy(a) THEN b ELSE a

(* a ?? b                                                                  *)
Nullish(a, b) == IF a.t \in {"null", "undefined"} THEN b ELSE a

----------------------------------------------------------------------------
(* generateBlogPostingJsonLd (BlogPostStructuredData component).  The      *)
(* props record holds every property of BlogPostStructuredDataProps, one   *)
(* that the caller left out being Undefined, as destructuring reads it.    *)

SchemaOrg == <<"h","t","t","p","s",":","/","/","s","c","h","e","m","a",".","o","r","g">>

BlogPostingLogoUrl == <<"h","t","t","p","s",":","/","/","b","l","o","g",".","l","o","c","a","l","h","a","k","e",".","c","o","m","/","i","m","g","/","f","a","v","i","c","o","n",".","p","n","g">>

(* dateModified ?? datePublished: an empty dateModified is kept.           *)
dateModifiedOf_Nullish(dateModified, datePublished) == Nullish(dateModified, datePublished)

(* dateModified: dateModified || datePublished                             *)
dateModifiedOf(dateModified, datePublished) == Or(dateModified, datePublished)

(* The author with the name trimmed.                                       *)
authorOf_Trimmed(authorName) ==
  ObjectLiteral(<< <<<<"@","t","y","p","e">>, Str(<<"P","e","r","s","o","n">>)>>,
                   <<<<"n","a","m","e">>, Str(trim(authorName.s))>> >>)

(* author: { '@type': 'Person', name: authorName }                         *)
authorOf(authorName) ==
  ObjectLiteral(<< <<<<"@","t","y","p","e">>, Str(<<"P","e","r","s","o","n">>)>>,
                   <<<<"n","a","m","e">>, authorName>> >>)

(* logo: { '@type': 'ImageObject', url: ... }                              *)
logoOf(url) ==
  ObjectLiteral(<< <<<<"@","t","y","p","e">>, Str(<<"I","m","a","g","e","O","b","j","e","c","t">>)>>,
                   <<<<"u","r","l">>, url>> >>)

(* publisher: { '@type': 'Organization', name: 'Localhake', logo: ... }    *)
blogPostingPublisher ==
  ObjectLiteral(<< <<<<"@","t","y","p","e">>, Str(<<"O","r","g","a","n","i","z","a","t","i","o","n">>)>>,
                   <<<<"n","a","m","e">>, Str(<<"L","o","c","a","l","h","a","k","e">>)>>,
                   <<<<"l","o","g","o">>, logoOf(Str(BlogPostingLogoUrl))>> >>)

(* mainEntityOfPage: { '@type': 'WebPage', '@id': url }                    *)
mainEntityOfPageOf(url) ==
  ObjectLiteral(<< <<<<"@","t","y","p","e">>, Str(<<"W","e","b","P","a","g","e">>)>>,
                   <<<<"@","i","d">>, url>> >>)

(* const structuredData = { ... }                                          *)
blogPostingLiteral(props) ==
  ObjectLiteral(<< <<<<"@","c","o","n","t","e","x","t">>, Str(SchemaOrg)>>,
                   <<<<"@","t","y","p","e">>, Str(<<"B","l","o","g","P","o","s","t","i","n","g">>)>>,
                   <<<<"h","e","a","d","l","i","n","e">>, props.title>>,
                   <<<<"d","e","s","c","r","i","p","t","i","o","n">>, props.description>>,
                   <<<<"d","a","t","e","P","u","b","l","i","s","h","e","d">>, props.datePublished>>,
                   <<<<"d","a","t","e","M","o","d","i","f","i","e","d">>, dateModifiedOf(props.dateModified, props.datePublished)>>,
                   <<<<"a","u","t","h","o","r">>, authorOf(props.authorName)>>,
                   <<<<"p","u","b","l","i","s","h","e","r">>, blogPostingPublisher>>,
                   <<<<"m","a","i","n","E","n","t","i","t","y","O","f","P","a","g","e">>, mainEntityOfPageOf(props.url)>> >>)

(* structuredData.image = image, whatever image is.                        *)
withImage_Always(structuredData, image) == setProp(structuredData, <<"i","m","a","g","e">>, image)

(* if (image) { structuredData.image = image }                             *)
withImage(structuredData, image) ==
  IF ~Falsy(image) THEN setProp(structuredData, <<"i","m","a","g","e">>, image) ELSE structuredData

generateBlogPostingJsonLd(props) == withImage(blogPostingLiteral(props), props.image)

----------------------------------------------------------------------------
(* generateArticleJsonLd (DocItem wrapper).                                *)

FaviconPath == <<"/","i","m","g","/","f","a","v","i","c","o","n",".","p","n","g">>

(* `${siteUrl}/img/favicon.png`                                            *)
articleLogoUrl(siteUrl) == Str(siteUrl.s \o FaviconPath)

(* The publisher without the type tag of its logo.                         *)
articlePublisher_BareLogo(siteUrl) ==
  ObjectLiteral(<< <<<<"@","t","y","p","e">>, Str(<<"O","r","g","a","n","i","z","a","t","i","o","n">>)>>,
                   <<<<"n","a","m","e">>, Str(<<"L","o","c","a","l","h","a","k","e">>)>>,
                   <<<<"l","o","g","o">>, ObjectLiteral(<< <<<<"u","r","l">>, articleLogoUrl(siteUrl)>> >>)>> >>)

(* publisher: { '@type': 'Organization', name: 'Localhake', logo: ... }    *)
articlePublisher(siteUrl) ==
  ObjectLiteral(<< <<<<"@","t","y","p","e">>, Str(<<"O","r","g","a","n","i","z","a","t","i","o","n">>)>>,
                   <<<<"n","a","m","e">>, Str(<<"L","o","c","a","l","h","a","k","e">>)>>,
                   <<<<"l","o","g","o">>, logoOf(articleLogoUrl(siteUrl))>> >>)

(* const structuredData = { ... }                                          *)
articleLiteral(props) ==
  ObjectLiteral(<< <<<<"@","c","o","n","t","e","x","t">>, Str(SchemaOrg)>>,
                   <<<<"@","t","y","p","e">>, Str(<<"A","r","t","i","c","l","e">>)>>,
                   <<<<"h","e","a","d","l","i","n","e">>, props.title>>,
                   <<<<"p","u","b","l","i","s","h","e","r">>, articlePublisher(props.siteUrl)>>,
                   <<<<"m","a","i","n","E","n","t","i","t","y","O","f","P","a","g","e">>, mainEntityOfPageOf(props.url)>> >>)

(* structuredData.description = description, whatever description is.      *)
withDescription_Always(structuredData, description) ==
  setProp(structuredData, <<"d","e","s","c","r","i","p","t","i","o","n">>, description)

(* if (description) { structuredData.description = description }           *)
withDescription(structuredData, description) ==
  IF ~Falsy(description) THEN setProp(structuredData, <<"d","e","s","c","r","i","p","t","i","o","n">>, description)
  ELSE structuredData

generateArticleJsonLd(props) == withDescription(articleLiteral(props), props.description)

----------------------------------------------------------------------------
(* JSON.stringify and JSON.parse on values made of objects, strings, null  *)
(* and booleans; strings over letters, digits, punctuation, the quote, the *)
(* backslash and the control characters \t \n \r \f.                       *)

JsonShortEscapes == {"\"", "\\", "\t", "\n", "\r", "\f"}

(* The letter that follows the backslash in the escape of c.               *)
EscapeLetter(c) ==
  CASE c = "\"" -> "\""
    [] c = "\\" -> "\\"
    [] c = "\t" -> "t"
    [] c = "\n" -> "n"
    [] c = "\r" -> "r"
    [] c = "\f" -> "f"

(* The character an escape letter stands for.                              *)
EscapedChar(l) ==
  CASE l = "\"" -> "\""
    [] l = "\\" -> "\\"
    [] l = "/"  -> "/"
    [] l = "t"  -> "\t"
    [] l = "n"  -> "\n"
    [] l = "r"  -> "\r"
    [] l = "f"  -> "\f"

JsonEscapeLetters == {"\"", "\\", "/", "t", "n", "r", "f"}

JsonControlChars == {"\t", "\n", "\r", "\f"}

JsonWhiteSpace == {" ", "\t", "\n", "\r"}

(* A character of a string copied to the text as it is.                    *)
quoteChar_Raw(c) == <<c>>

quoteChar(c) == IF c \in JsonShortEscapes THEN <<"\\", EscapeLetter(c)>> ELSE <<c>>

RECURSIVE quoteChars(_, _)
quoteChars(s, i) ==
  IF i > Len(s) THEN <<>> ELSE quoteChar(s[i]) \o quoteChars(s, i + 1)

(* QuoteJSONString; a string without a character to escape is copied      *)
(* whole.                                                                  *)
QuoteJSONString(s) ==
  IF \A i \in 1..Len(s) : s[i] \notin JsonShortEscapes
  THEN <<"\"">> \o s \o <<"\"">>
  ELSE <<"\"">> \o quoteChars(s, 1) \o <<"\"">>

NotSerialized == [t |-> "undefined"]

RECURSIVE SerializeJSONProperty(_)
RECURSIVE SerializeJSONMembers(_, _, _)

(* The members of o from the i-th key on; a member whose value has no      *)
(* serialization is left out.                                              *)
SerializeJSONMembers(o, i, first) ==
  IF i > Len(o.keys) THEN <<>>
  ELSE IF SerializeJSONProperty(o.at[o.keys[i]]) = NotSerialized
  THEN SerializeJSONMembers(o, i + 1, first)
  ELSE (IF first THEN <<>> ELSE <<",">>)
         \o QuoteJSONString(o.keys[i]) \o <<":">> \o SerializeJSONProperty(o.at[o.keys[i]]).s
         \o SerializeJSONMembers(o, i + 1, FALSE)

SerializeJSONProperty(v) ==
  CASE v.t = "string"    -> Str(QuoteJSONString(v.s))
    [] v.t = "null"      -> Str(<<"n","u","l","l">>)
    [] v.t = "boolean"   -> Str(IF v.b THEN <<"t","r","u","e">> ELSE <<"f","a","l","s","e">>)
    [] v.t = "object"    -> Str(<<"{">> \o SerializeJSONMembers(v, 1, TRUE) \o <<"}">>)
    [] v.t = "undefined" -> NotSerialized

(* JSON.stringify(value): a string, or undefined for undefined.            *)
JSONstringify(value) == SerializeJSONProperty(value)

SyntaxError == [ok |-> FALSE]

Parsed(value, next) == [ok |-> TRUE, value |-> value, next |-> next]

skipWs(text, i) == SkipFrom(text, JsonWhiteSpace, i)

JsonStringSpecials == {"\"", "\\"} \cup JsonControlChars

(* Least index >= i of a quote, a backslash or a control character;        *)
(* 0 when there is none.                                                   *)
firstSpecial(text, i) ==
  IF \A m \in i..Len(text) : text[m] \notin JsonStringSpecials THEN 0
  ELSE CHOOSE m \in i..Len(text) :
         /\ text[m] \in JsonStringSpecials
         /\ \A n \in i..(m - 1) : text[n] \notin JsonStringSpecials

RECURSIVE stringEnd(_, _)
(* The index of the quote that closes the string whose opening quote       *)
(* precedes index i; 0 when the string is not closed or holds a control    *)
(* character or an unknown escape.                                         *)
stringEnd(text, i) ==
  IF i > Len(text) THEN 0
  ELSE IF text[i] = "\"" THEN i
  ELSE IF text[i] \in JsonControlChars THEN 0
  ELSE IF text[i] # "\\" THEN stringEnd(text, i + 1)
  ELSE IF i + 1 > Len(text) THEN 0
  ELSE IF text[i + 1] \in JsonEscapeLetters THEN stringEnd(text, i + 2)
  ELSE 0

RECURSIVE unescape(_, _, _)
(* The characters that text[i..j] stands for.                              *)
unescape(text, i, j) ==
  IF i > j THEN <<>>
  ELSE IF text[i] = "\\" THEN <<EscapedChar(text[i + 1])>> \o unescape(text, i + 2, j)
  ELSE <<text[i]>> \o unescape(text, i + 1, j)

(* A string without escapes ends at its first special character, a quote,  *)
(* and stands for itself.                                                  *)
stringFrom(text, i, special) ==
  IF special = 0 THEN SyntaxError
  ELSE IF text[special] = "\"" THEN Parsed(Str(SubSeq(text, i, special - 1)), special + 1)
  ELSE IF stringEnd(text, special) = 0 THEN SyntaxError
  ELSE Parsed(Str(unescape(text, i, stringEnd(text, special) - 1)), stringEnd(text, special) + 1)

(* The string whose opening quote precedes index i.                        *)
scanString(text, i) == stringFrom(text, i, firstSpecial(text, i))

literalAt(text, i, word, value) ==
  IF Len(text) >= i + Len(word) - 1 /\ SubSeq(text, i, i + Len(word) - 1) = word
  THEN Parsed(value, i + Len(word))
  ELSE SyntaxError

RECURSIVE parseValue(_, _)
RECURSIVE parseMember(_, _)
RECURSIVE parseMembers(_, _, _)
RECURSIVE membersAfter(_, _, _)

(* The value that starts at index i (white space skipped by the caller).   *)
parseValue(text, i) ==
  IF i > Len(text) THEN SyntaxError
  ELSE CASE text[i] = "{"  ->
              IF skipWs(text, i + 1) <= Len(text) /\ text[skipWs(text, i + 1)] = "}"
              THEN Parsed(Object(<<>>, <<>>), skipWs(text, i + 1) + 1)
              ELSE parseMembers(text, skipWs(text, i + 1), Object(<<>>, <<>>))
         [] text[i] = "\"" -> scanString(text, i + 1)
         [] text[i] = "n"  -> literalAt(text, i, <<"n","u","l","l">>, Null)
         [] text[i] = "t"  -> literalAt(text, i, <<"t","r","u","e">>, Bool(TRUE))
         [] text[i] = "f"  -> literalAt(text, i, <<"f","a","l","s","e">>, Bool(FALSE))
         [] OTHER          -> SyntaxError

Member(key, value, next) == [ok |-> TRUE, key |-> key, value |-> value, next |-> next]

valueOfMember(k, v) == IF v.ok THEN Member(k, v.value, v.next) ELSE SyntaxError

colonOfMember(text, k, i) ==
  IF i > Len(text) \/ text[i] # ":" THEN SyntaxError
  ELSE valueOfMember(k, parseValue(text, skipWs(text, i + 1)))

keyOfMember(text, key) ==
  IF ~key.ok THEN SyntaxError
  ELSE colonOfMember(text, key.value.s, skipWs(text, key.next))

(* One member "key": value at index i.                                     *)
parseMember(text, i) ==
  IF i > Len(text) \/ text[i] # "\"" THEN SyntaxError
  ELSE keyOfMember(text, scanString(text, i + 1))

(* The members from index i on, added to the object read so far; a key     *)
(* read twice keeps its place and takes the later value.                   *)
parseMembers(text, i, o) == membersAfter(text, o, parseMember(text, i))

membersAfter(text, o, m) ==
  IF ~m.ok \/ skipWs(text, m.next) > Len(text) THEN SyntaxError
  ELSE IF text[skipWs(text, m.next)] = "}"
  THEN Parsed(setProp(o, m.key, m.value), skipWs(text, m.next) + 1)
  ELSE IF text[skipWs(text, m.next)] = ","
  THEN parseMembers(text, skipWs(text, skipWs(text, m.next) + 1), setProp(o, m.key, m.value))
  ELSE SyntaxError

(* The whole text must be one value.                                       *)
finishParse(text, r) ==
  IF r.ok /\ skipWs(text, r.next) > Len(text) THEN Return(r.value) ELSE Throw

(* JSON.parse(text) of a string; ToString(undefined) is not JSON.          *)
JSONparse(text) ==
  IF text.t # "string" THEN Throw
  ELSE finishParse(text.s, parseValue(text.s, skipWs(text.s, 1)))

RECURSIVE deepEqual(_, _)
(* Same keys and same values, at every depth.                              *)
deepEqual(a, b) ==
  IF a.t = "object" /\ b.t = "object"
  THEN /\ DOMAIN a.at = DOMAIN b.at
       /\ \A k \in DOMAIN a.at : deepEqual(a.at[k], b.at[k])
  ELSE a = b

----------------------------------------------------------------------------
(* Image and keyword resolution (seo tests) and the BlogPostPage wrapper.  *)

SITE_CONFIG ==
  [url |-> <<"h","t","t","p","s",":","/","/","b","l","o","g",".","l","o","c","a","l","h","a","k","e",".","c","o","m">>,
   defaultImage |-> <<"/","i","m","g","/","l","o","c","a","l","h","a","k","e","-","s","o","c","i","a","l","-","c","a","r","d",".","p","n","g">>,
   defaultKeywords |-> <<"h","o","m","e","l","a","b",","," ","s","e","l","f","-","h","o","s","t","e","d",","," ","p","r","o","x","m","o","x",","," ","d","o","c","k","e","r",","," ","t","u","t","o","r","i","a","l","s",","," ","l","i","n","u","x",","," ","v","i","r","t","u","a","l","i","z","a","t","i","o","n">>]

(* An image that is given is always prefixed with the site URL.            *)
resolveImageUrl_AlwaysPrefix(frontMatterImage) ==
  IF ~Falsy(frontMatterImage) /\ Len(frontMatterImage.s) > 0
  THEN Str(SITE_CONFIG.url \o frontMatterImage.s)
  ELSE Str(SITE_CONFIG.url \o SITE_CONFIG.defaultImage)

resolveImageUrl(frontMatterImage) ==
  IF ~Falsy(frontMatterImage) /\ Len(frontMatterImage.s) > 0
  THEN IF StartsWith(frontMatterImage.s, <<"h","t","t","p">>)
       THEN frontMatterImage
       ELSE Str(SITE_CONFIG.url \o frontMatterImage.s)
  ELSE Str(SITE_CONFIG.url \o SITE_CONFIG.defaultImage)

(* A JavaScript array of strings.                                          *)
Arr(items) == [t |-> "array", items |-> items]

RECURSIVE join(_, _)
(* Array.prototype.join                                                    *)
join(items, sep) ==
  IF items = <<>> THEN <<>>
  ELSE IF Len(items) = 1 THEN items[1]
  ELSE items[1] \o sep \o join(Tail(items), sep)

RECURSIVE withoutRepeats(_)
withoutRepeats(items) ==
  IF items = <<>> THEN <<>>
  ELSE <<items[1]>> \o withoutRepeats(SelectSeq(Tail(items), LAMBDA x : x # items[1]))

(* The page keywords with repeated ones dropped before they are joined.    *)
keywordsOf_Deduplicated(keywords) ==
  IF ~Falsy(keywords) /\ Len(keywords.items) > 0
  THEN Str(SITE_CONFIG.defaultKeywords \o <<",", " ">> \o join(withoutRepeats(keywords.items), <<",", " ">>))
  ELSE Str(SITE_CONFIG.defaultKeywords)

(* result.keywords of mapFrontMatterToMetaTags                             *)
keywordsOf(keywords) ==
  IF ~Falsy(keywords) /\ Len(keywords.items) > 0
  THEN Str(SITE_CONFIG.defaultKeywords \o <<",", " ">> \o join(keywords.items, <<",", " ">>))
  ELSE Str(SITE_CONFIG.defaultKeywords)

(* fullImageUrl, or the default image, of mapFrontMatterToMetaTags         *)
metaImageOf(image) ==
  IF ~Falsy(image)
  THEN IF StartsWith(image.s, <<"h","t","t","p">>) THEN image ELSE Str(SITE_CONFIG.url \o image.s)
  ELSE Str(SITE_CONFIG.url \o SITE_CONFIG.defaultImage)

(* if (frontMatter.description) { result.description = ... }               *)
metaDescription(result, description) ==
  IF ~Falsy(description) THEN setProp(result, <<"d","e","s","c","r","i","p","t","i","o","n">>, description) ELSE result

metaImages(result, fullImageUrl) ==
  setProp(setProp(result, <<"o","g",":","i","m","a","g","e">>, fullImageUrl), <<"t","w","i","t","t","e","r",":","i","m","a","g","e">>, fullImageUrl)

mapFrontMatterToMetaTags(frontMatter) ==
  setProp(metaImages(metaDescription(Object(<<>>, <<>>), frontMatter.description),
                     metaImageOf(frontMatter.image)),
          <<"k","e","y","w","o","r","d","s">>, keywordsOf(frontMatter.keywords))

(* frontMatter?.image                                                      *)
frontMatterImage(frontMatter) ==
  IF frontMatter.t \in {"null", "undefined"} THEN Undefined ELSE frontMatter.image

(* The image left out when the front matter has none.                      *)
wrapperImage_NoDefault(siteUrl, image) ==
  IF ~Falsy(image) THEN Str(siteUrl \o image.s) ELSE Undefined

(* const image = frontMatter?.image ? `${siteConfig.url}${frontMatter.image}` *)
(*                                  : `${siteConfig.url}/img/localhake-social-card.png` *)
wrapperImage(siteUrl, image) ==
  IF ~Falsy(image) THEN Str(siteUrl \o image.s)
  ELSE Str(siteUrl \o <<"/","i","m","g","/","l","o","c","a","l","h","a","k","e","-","s","o","c","i","a","l","-","c","a","r","d",".","p","n","g">>)

(* The name of the first author that has one.                              *)
wrapperAuthorName_FirstNamed(authors) ==
  IF authors.t \in {"null", "undefined"} THEN Str(<<"H","a","k","e">>)
  ELSE IF \A i \in 1..Len(authors.items) : Falsy(authors.items[i].name) THEN Str(<<"H","a","k","e">>)
  ELSE authors.items[CHOOSE i \in 1..Len(authors.items) :
                       /\ ~Falsy(authors.items[i].name)
                       /\ \A j \in 1..(i - 1) : Falsy(authors.items[j].name)].name

(* authors?.[0]?.name || 'Hake'                                            *)
wrapperAuthorName(authors) ==
  IF authors.t \in {"null", "undefined"} THEN Str(<<"H","a","k","e">>)
  ELSE IF Len(authors.items) = 0 THEN Str(<<"H","a","k","e">>)
  ELSE Or(authors.items[1].name, Str(<<"H","a","k","e">>))

(* The props BlogPostPageWrapper hands to BlogPostStructuredData.          *)
BlogPostPageWrapper(siteUrl, content) ==
  [title         |-> content.metadata.title,
   description   |-> Or(content.metadata.description, Str(<<>>)),
   datePublished |-> content.metadata.date,
   dateModified  |-> Undefined,
   authorName    |-> wrapperAuthorName(content.metadata.authors),
   image         |-> wrapperImage(siteUrl, frontMatterImage(content.frontMatter)),
   url           |-> Str(siteUrl \o content.metadata.permalink.s)]

----------------------------------------------------------------------------
(* Objects by reference.  The heap is the list of the objects made so far, *)
(* an object's address its place in the list; a member of a stored object  *)
(* is a primitive value or the reference of another object.                *)

Ref(a) == [t |-> "ref", a |-> a]

(* The props record a caller holds.                                        *)
PropsObject(fields) == [t |-> "props", fields |-> fields]

(* An object equal to one made before is handed out again.                 *)
alloc_Interned(h, o) ==
  IF \E a \in 1..Len(h) : h[a] = o
  THEN [heap |-> h, ref |-> Ref(CHOOSE a \in 1..Len(h) : h[a] = o)]
  ELSE [heap |-> Append(h, o), ref |-> Ref(Len(h) + 1)]

(* An object literal, its members evaluated: a new object each time.       *)
alloc(h, o) == [heap |-> Append(h, o), ref |-> Ref(Len(h) + 1)]

RECURSIVE store(_, _), storeMembers(_, _, _, _), storeMember(_, _, _, _)

(* The literals of a document evaluated into the heap, inner ones first.   *)
store(h, o) == storeMembers(h, o, 1, o.at)

storeMembers(h, o, i, at) ==
  IF i > Len(o.keys) THEN alloc(h, Object(o.keys, at))
  ELSE IF at[o.keys[i]].t = "object" THEN storeMember(store(h, at[o.keys[i]]), o, i, at)
  ELSE storeMembers(h, o, i + 1, at)

storeMember(r, o, i, at) ==
  storeMembers(r.heap, o, i + 1, [at EXCEPT ![o.keys[i]] = r.ref])

(* The value a reference stands for.                                       *)
RECURSIVE deref(_, _)
deref(h, ref) ==
  Object(h[ref.a].keys,
         [k \in DOMAIN h[ref.a].at |->
            IF h[ref.a].at[k].t = "ref" THEN deref(h, h[ref.a].at[k]) ELSE h[ref.a].at[k]])

(* The addresses of the objects a reference leads to.                      *)
RECURSIVE Reach(_, _)
Reach(h, ref) ==
  {ref.a} \cup UNION {Reach(h, h[ref.a].at[k]) : k \in {j \in DOMAIN h[ref.a].at : h[ref.a].at[j].t = "ref"}}

----------------------------------------------------------------------------
(* React elements: a tag, the attributes given to it and its children.     *)
(* className holds the key of the style, a text node holds its value.      *)

Element(tag, attrs, children) == [tag |-> tag, attrs |-> attrs, children |-> children]

Text(v) == Element("#text", {<<"nodeValue", v>>}, <<>>)

attr(e, name) ==
  IF \E p \in e.attrs : p[1] = name
  THEN (CHOOSE p \in e.attrs : p[1] = name)[2]
  ELSE Undefined

(* A parameter with a default: the default replaces undefined only.        *)
defaultParam(v, d) == IF v = Undefined THEN d ELSE v

ErrorIcon == Str("(warning sign)")

(* !error for the error field of a validator's result: null or a message.  *)
NoError(error) == error.t \in {"null", "undefined"} \/ (error.t = "string" /\ error.s = "")

(* error || fallback                                                       *)
messageOr(error, fallback) == IF NoError(error) THEN fallback ELSE error

----------------------------------------------------------------------------
(* YouTube component                                                       *)

EmbedPrefix == <<"h","t","t","p","s",":","/","/","w","w","w",".","y","o","u","t","u","b","e","-","n","o","c","o","o","k","i","e",".","c","o","m","/","e","m","b","e","d","/">>

YouTubeError(message) ==
  Element("div", {<<"className", Str("youtubeError")>>, <<"role", Str("alert")>>},
          << Element("span", {<<"className", Str("errorIcon")>>}, <<Text(ErrorIcon)>>),
             Element("span", {}, <<Text(message)>>) >>)

embedSrc_CookieHost(videoId) ==
  Str(<<"h","t","t","p","s",":","/","/","w","w","w",".","y","o","u","t","u","b","e",".","c","o","m","/","e","m","b","e","d","/">> \o videoId.s)

(* `https://www.youtube-nocookie.com/embed/${videoId}`                     *)
embedSrc(videoId) == Str(EmbedPrefix \o videoId.s)

youTubePlayer(videoId, title) ==
  Element("div", {<<"className", Str("youtubeContainer")>>},
          << Element("iframe",
                     { <<"className", Str("youtubeIframe")>>,
                       <<"src", embedSrc(videoId)>>,
                       <<"title", title>>,
                       <<"allowFullScreen", Bool(TRUE)>>,
                       <<"loading", Str("lazy")>>,
                       <<"referrerPolicy", Str("strict-origin-when-cross-origin")>> },
                     <<>>) >>)

(* The component after its call of parseYouTubeUrl has returned.           *)
renderYouTube(parsed, title) ==
  IF ~NoError(parsed.error) \/ Falsy(parsed.videoId)
  THEN YouTubeError(messageOr(parsed.error, Str("Invalid YouTube URL")))
  ELSE youTubePlayer(parsed.videoId, title)

renderAfterParse(made, title) ==
  IF made.kind = "throw" THEN Throw ELSE Return(renderYouTube(made.value, title))

YouTube(p) ==
  renderAfterParse(parseYouTubeUrl(p.url), defaultParam(p.title, Str(<<"Y","o","u","T","u","b","e"," ","v","i","d","e","o">>)))

----------------------------------------------------------------------------
(* AffiliateLink component                                                 *)

DISCLOSURE_TEXT == Str(<<"A","s"," ","a","n"," ","A","m","a","z","o","n"," ","A","s","s","o","c","i","a","t","e",","," ","I"," ","e","a","r","n"," ","f","r","o","m"," ","q","u","a","l","i","f","y","i","n","g"," ","p","u","r","c","h","a","s","e","s",".">>)

ViewOnAmazon == Str(<<"V","i","e","w"," ","o","n"," ","A","m","a","z","o","n">>)

AffiliateLinkError_NoRole(message) ==
  Element("span", {<<"className", Str("affiliateLinkError")>>},
          << Element("span", {<<"className", Str("errorIcon")>>}, <<Text(ErrorIcon)>>),
             Element("span", {}, <<Text(message)>>) >>)

AffiliateLinkError(message) ==
  Element("span", {<<"className", Str("affiliateLinkError")>>, <<"role", Str("alert")>>},
          << Element("span", {<<"className", Str("errorIcon")>>}, <<Text(ErrorIcon)>>),
             Element("span", {}, <<Text(message)>>) >>)

DisclosureTooltip ==
  Element("span", {<<"className", Str("tooltip")>>, <<"role", Str("tooltip")>>},
          <<Text(DISCLOSURE_TEXT)>>)

(* `${title} (affiliate link, opens in new tab)`                           *)
ariaLabel(title) ==
  Str(title.s \o <<" ","(","a","f","f","i","l","i","a","t","e"," ","l","i","n","k",","," ","o","p","e","n","s"," ","i","n"," ","n","e","w"," ","t","a","b",")">>)

affiliateAnchor(validatedUrl, title) ==
  Element("span", {<<"className", Str("affiliateLinkWrapper")>>},
          << Element("a",
                     { <<"href", validatedUrl>>,
                       <<"target", Str("_blank")>>,
                       <<"rel", Str("noopener sponsored")>>,
                       <<"className", Str("affiliateLink")>>,
                       <<"aria-label", ariaLabel(title)>> },
                     <<Text(title)>>),
             DisclosureTooltip >>)

renderAffiliateLink(parsed, title) ==
  IF ~NoError(parsed.error) \/ Falsy(parsed.url)
  THEN AffiliateLinkError(messageOr(parsed.error, Str("Invalid Amazon URL")))
  ELSE affiliateAnchor(parsed.url, title)

renderAfterAmazonParse(made, title) ==
  IF made.kind = "throw" THEN Throw ELSE Return(renderAffiliateLink(made.value, title))

AffiliateLink(p) ==
  renderAfterAmazonParse(parseAmazonUrl(p.url), defaultParam(p.title, ViewOnAmazon))

----------------------------------------------------------------------------
(* InfoCard component.  The numbers of the model are integers.             *)

(* Math.round on an integer.                                               *)
MathRound(n) == n

timeText_RawMinutes(roundedMinutes) == Str(Decimal(roundedMinutes) \o <<"m">>)

(* The three shapes of a positive whole number of minutes.                 *)
timeText(roundedMinutes) ==
  IF roundedMinutes \div 60 = 0
  THEN Str(Decimal(roundedMinutes % 60) \o <<"m">>)
  ELSE IF roundedMinutes % 60 = 0
  THEN Str(Decimal(roundedMinutes \div 60) \o <<"h">>)
  ELSE Str(Decimal(roundedMinutes \div 60) \o <<"h"," ">> \o Decimal(roundedMinutes % 60) \o <<"m">>)

formatTime(minutes) ==
  IF typeof(minutes) # "number" THEN Str(<<"0","m">>)
  ELSE IF minutes.n <= 0 THEN Str(<<"0","m">>)
  ELSE timeText(MathRound(minutes.n))

Max(a, b) == IF a >= b THEN a ELSE b

Min(a, b) == IF a <= b THEN a ELSE b

(* Math.max(1, Math.min(5, Math.round(level)))                             *)
clampedLevel(level) == Max(1, Min(5, MathRound(level)))

difficultyDot(i, level) ==
  Element("span",
          { <<"className", Str(IF i <= level THEN "difficultyDot filled" ELSE "difficultyDot empty")>>,
            <<"aria-hidden", Str("true")>> },
          <<>>)

DifficultyIndicator(level) ==
  Element("div",
          { <<"className", Str("difficultyContainer")>>,
            <<"role", Str("img")>>,
            <<"aria-label", Str(<<"D","i","f","f","i","c","u","l","t","y",":"," ">>
                                  \o Decimal(clampedLevel(level))
                                  \o <<" ","o","u","t"," ","o","f"," ","5">>)>> },
          << Element("span", {<<"className", Str("difficultyLabel")>>}, <<Text(Str(<<"D","i","f","f","i","c","u","l","t","y",":">>))>>),
             Element("div", {<<"className", Str("difficultyDots")>>},
                     [i \in 1..5 |-> difficultyDot(i, clampedLevel(level))]) >>)

(* ToNumber of the values a prop can hold; NaN compares false.             *)
IsNaN(v) == v.t \notin {"number", "null", "boolean"}

ToNumber(v) ==
  CASE v.t = "number"  -> v.n
    [] v.t = "boolean" -> IF v.b THEN 1 ELSE 0
    [] OTHER           -> 0

validDifficulty_FromZero(difficulty) ==
  /\ difficulty # Undefined
  /\ ~IsNaN(difficulty) /\ ToNumber(difficulty) >= 0
  /\ ~IsNaN(difficulty) /\ ToNumber(difficulty) <= 5

validDifficulty(difficulty) ==
  /\ difficulty # Undefined
  /\ ~IsNaN(difficulty) /\ ToNumber(difficulty) >= 1
  /\ ~IsNaN(difficulty) /\ ToNumber(difficulty) <= 5

validTime(time) ==
  /\ time # Undefined
  /\ typeof(time) = "number"
  /\ time.n > 0

validVideoUrl(videoUrl) ==
  /\ videoUrl # Undefined
  /\ typeof(videoUrl) = "string"
  /\ Len(trim(videoUrl.s)) > 0

timeSection(time) ==
  Element("div", {<<"className", Str("timeContainer")>>},
          << Element("span", {<<"className", Str("timeIcon")>>}, <<Text(Str(<<"(","s","t","o","p","w","a","t","c","h",")">>))>>),
             Element("span", {<<"className", Str("timeValue")>>}, <<Text(formatTime(time))>>) >>)

videoSection(videoUrl) ==
  Element("a",
          { <<"href", Str(trim(videoUrl.s))>>,
            <<"className", Str("videoLink")>>,
            <<"target", Str("_blank")>>,
            <<"rel", Str("noopener noreferrer")>> },
          << Element("span", {<<"className", Str("videoIcon")>>}, <<Text(Str(<<"(","p","l","a","y"," ","b","u","t","t","o","n",")">>))>>),
             Element("span", {}, <<Text(Str(<<"W","a","t","c","h"," ","V","i","d","e","o">>))>>) >>)

(* {valid && (<section/>)}: a false condition leaves no child.             *)
when(valid, section) == IF valid THEN <<section>> ELSE <<>>

infoCard(p) ==
  Element("div", {<<"className", Str("infoCard")>>},
          when(validDifficulty(p.difficulty), DifficultyIndicator(ToNumber(p.difficulty)))
            \o when(validTime(p.time), timeSection(p.time))
            \o when(validVideoUrl(p.videoUrl), videoSection(p.videoUrl)))

InfoCard(p) ==
  IF Falsy(p.difficulty) /\ Falsy(p.time) /\ Falsy(p.videoUrl) THEN Null
  ELSE IF ~validDifficulty(p.difficulty) /\ ~validTime(p.time) /\ ~validVideoUrl(p.videoUrl) THEN Null
  ELSE infoCard(p)

----------------------------------------------------------------------------
(* The inputs the validators are applied to.  An input is described by a   *)
(* record (arb) and rendered to the JavaScript value passed to the call.   *)
(* URL inputs are                                                          *)
(*   pl scheme ":" pre host post path pr                                   *)
(* with pl/pr white space, pre the slashes and credentials before the      *)
(* host, post a port, and path built from a shape and a token.             *)

MaxTokenLen == 2

MaxTextLen == 3

TokenChars == {"a", "Z", "7", "_", "-", "?", "."}

TextChars == {"a", ":", "/", " ", ".", "?", "#", "1"}

StringsOver(chars, n) == UNION {[1..k -> chars] : k \in 0..n}

Tokens == StringsOver(TokenChars, MaxTokenLen)

FixedTokens == { <<"a","Z","7","_","-">>,
                 <<"a","?","b">>,
                 <<"?","x">>,
                 <<"a","+","b">>,
                 <<"a"," ","b">>,
                 <<"a","#","b">> } \cup {<<>>}

YouTubeHosts ==
  { <<"y","o","u","t","u",".","b","e">>,
    <<"y","o","u","t","u","b","e",".","c","o","m">>,
    <<"w","w","w",".","y","o","u","t","u","b","e",".","c","o","m">>,
    <<"m",".","y","o","u","t","u","b","e",".","c","o","m">> }

YouTubeHostsMixedCase ==
  { <<"Y","o","u","T","u",".","B","e">>,
    <<"Y","O","U","T","U","B","E",".","C","O","M">>,
    <<"W","w","w",".","Y","o","u","T","u","b","e",".","C","o","m">>,
    <<"M",".","y","o","u","t","u","b","e",".","c","o","m">> }

OtherVideoHosts ==
  { <<"e","x","a","m","p","l","e",".","c","o","m">>,
    <<"m","u","s","i","c",".","y","o","u","t","u","b","e",".","c","o","m">>,
    <<"y","o","u","t","u","b","e",".","c","o","m",".">>,
    <<"y","o","u","t","u",".","b","e",".","e","x","a","m","p","l","e",".","c","o","m">>,
    <<"n","o","t","y","o","u","t","u","b","e",".","c","o","m">>,
    <<"v","i","m","e","o",".","c","o","m">> }

AmazonPrefixes == { <<>>,
                    <<"w","w","w",".">>,
                    <<"s","m","i","l","e",".">> }

AmazonHosts ==
  {<<"a","m","z","n",".","t","o">>} \cup
  {p \o <<"a","m","a","z","o","n",".">> \o AMAZON_TLDS[i] : p \in AmazonPrefixes, i \in 1..Len(AMAZON_TLDS)}

AmazonHostsMixedCase ==
  { <<"A","M","Z","N",".","t","o">>,
    <<"W","W","W",".","A","m","a","z","o","n",".","C","O","M">>,
    <<"S","m","i","l","e",".","A","m","a","z","o","n",".","C","o",".","U","k">> }

(* The look-alike hosts of fakeAmazonUrlArbitrary and some more.           *)
OtherShopHosts ==
  { <<"f","a","k","e","-","a","m","a","z","o","n",".","c","o","m">>,
    <<"a","m","a","z","o","n","-","f","a","k","e",".","c","o","m">>,
    <<"w","w","w",".","n","o","t","a","m","a","z","o","n",".","c","o","m">>,
    <<"a","m","a","z","o","n","n",".","c","o","m">>,
    <<"a","m","a","z","n",".","t","o">>,
    <<"a","m","z","n",".","c","o","m">>,
    <<"a","m","a","z","o","n",".","i","n","v","a","l","i","d">>,
    <<"s","u","b",".","a","m","a","z","o","n",".","f","a","k","e",".","c","o","m">>,
    <<"a","w","s",".","a","m","a","z","o","n",".","c","o","m">>,
    <<"a","m","a","z","o","n",".","c","o","m",".">>,
    <<"w","w","w",".","a","m","a","z","o","n",".","c","o","m",".","e","x","a","m","p","l","e",".","c","o","m">>,
    <<"a","m","a","z","o","n",".","p","l">>,
    <<"e","b","a","y",".","c","o","m">> }

AmazonPaths ==
  { <<>>,
    <<"/","3","x","Y","z","1","2","3">>,
    <<"/","d","p","/","B","0","8","N","5","W","R","W","N","W","?","t","a","g","=","a","-","2","0","&","r","e","f","=","x","#","r">>,
    <<"/","A"," ","b","/",".",".","/","C","?","q","=","a"," ","b">> }

Schemes == { <<"h","t","t","p","s">>,
             <<"h","t","t","p">>,
             <<"H","T","T","P","S">>,
             <<"f","t","p">>,
             <<"y","t">> }

Pads == { <<>>,
          <<" ">>,
          <<"\t"," ">> }

Pres == { <<"/","/">>,
          <<>>,
          <<"/">>,
          <<"\\","\\">>,
          <<"/","/","u","s","e","r","@">>,
          <<"/","/","y","o","u","t","u",".","b","e","@">>,
          <<"/","/","a","m","z","n",".","t","o","@">> }

Posts == { <<>>,
           <<":","4","4","3">>,
           <<":">>,
           <<":","x">>,
           <<":","9","9","9","9","9">> }

MainShapes == {"short", "watch", "embed", "v"}

VideoShapes == MainShapes \cup {"watchExtra", "embedMore", "shorts", "watchSlash", "none"}

Shapes == VideoShapes \cup {"raw"}

Path(shape, token) ==
  CASE shape = "short"      -> <<"/">> \o token
    [] shape = "watch"      -> <<"/","w","a","t","c","h","?","v","=">> \o token
    [] shape = "embed"      -> <<"/","e","m","b","e","d","/">> \o token
    [] shape = "v"          -> <<"/","v","/">> \o token
    [] shape = "watchExtra" -> <<"/","w","a","t","c","h","?","x","=","1","&","v","=">> \o token \o <<"&","v","=","z","z">>
    [] shape = "embedMore"  -> <<"/","e","m","b","e","d","/">> \o token \o <<"/","m","o","r","e","?","x","=","1">>
    [] shape = "shorts"     -> <<"/","s","h","o","r","t","s","/">> \o token
    [] shape = "watchSlash" -> <<"/","w","a","t","c","h","/","?","v","=">> \o token
    [] shape = "none"       -> <<>>
    [] shape = "raw"        -> token

UrlArb(pl, scheme, pre, host, post, shape, token, pr) ==
  [family |-> "url", pl |-> pl, scheme |-> scheme, pre |-> pre, host |-> host,
   post |-> post, shape |-> shape, token |-> token, pr |-> pr]

Plain == <<"/","/">>

(* Every token in each main shape on each supported host.                  *)
VideoUrlArbs ==
  {UrlArb(<<>>, s, Plain, h, <<>>, sh, tok, <<>>) :
     s \in {<<"h","t","t","p","s">>, <<"y","t">>}, h \in YouTubeHosts, sh \in MainShapes, tok \in Tokens}

(* Every scheme, host and shape with a few tokens.                         *)
VideoHostArbs ==
  {UrlArb(<<>>, s, Plain, h, <<>>, sh, tok, <<>>) :
     s \in Schemes, h \in YouTubeHosts \cup YouTubeHostsMixedCase \cup OtherVideoHosts,
     sh \in VideoShapes, tok \in FixedTokens}

(* Every scheme and host of the shop family with a few paths.              *)
ShopUrlArbs ==
  {UrlArb(<<>>, s, Plain, h, <<>>, "raw", p, <<>>) :
     s \in Schemes, h \in AmazonHosts \cup AmazonHostsMixedCase \cup OtherShopHosts,
     p \in AmazonPaths}

(* White space, slashes, credentials and ports around a few hosts.         *)
DecoratedArbs ==
  {UrlArb(pl, <<"h","t","t","p","s">>, pre, h, post, sh, <<"a","Z","7","_","-">>, pr) :
     pl \in Pads, pr \in Pads, pre \in Pres, post \in Posts,
     h \in { <<"y","o","u","t","u",".","b","e">>,
          <<"W","w","w",".","Y","o","u","T","u","b","e",".","C","o","m">>,
          <<"e","x","a","m","p","l","e",".","c","o","m">>,
          <<"a","m","z","n",".","t","o">>,
          <<"w","w","w",".","a","m","a","z","o","n",".","c","o",".","u","k">>,
          <<"a","m","a","z","o","n","-","f","a","k","e",".","c","o","m">> },
     sh \in {"short", "embed"}}

TextArbs == {[family |-> "text", s |-> s] : s \in StringsOver(TextChars, MaxTextLen)}

NonStringValues == {Undefined, Null, Num(0), Num(42), Bool(FALSE), Bool(TRUE), Obj}

NonStringArbs == {[family |-> "value", v |-> v] : v \in NonStringValues}

Arbitraries ==
  VideoUrlArbs \cup VideoHostArbs \cup ShopUrlArbs \cup DecoratedArbs
    \cup TextArbs \cup NonStringArbs

Render(a) ==
  CASE a.family = "value" -> a.v
    [] a.family = "text"  -> Str(a.s)
    [] a.family = "url"   ->
         Str(a.pl \o a.scheme \o <<":">> \o a.pre \o a.host \o a.post
             \o Path(a.shape, a.token) \o a.pr)

----------------------------------------------------------------------------
(* The pages the builders, the wrapper and the mappers are applied to.     *)

MaxSeoLen == 2

MaxKeywords == 2

SeoChars == {"a", " ", "\"", "\\", "\n"}

SeoTexts == {Str(s) : s \in StringsOver(SeoChars, MaxSeoLen)}

Titles == SeoTexts \ {Str(<<>>)}

Descriptions == {Str(<<>>), Str(<<"D">>), Str(<<" ","s","a","y"," ","\"","h","i","\"","\n">>)}

AbsoluteImages ==
  { Str(<<"h","t","t","p","s",":","/","/","c","d","n",".","e","x","a","m","p","l","e",".","c","o","m","/","i","m","g","/","a",".","p","n","g">>),
    Str(<<"h","t","t","p",":","/","/","e","x","a","m","p","l","e",".","c","o","m","/","i","m","g","/","b",".","j","p","g">>) }

RelativeImages ==
  { Str(<<"/","i","m","g","/","c","u","s","t","o","m","-","p","o","s","t","-","i","m","a","g","e",".","p","n","g">>),
    Str(<<"/","b","l","o","g","/","2","0","2","4","-","0","1","-","1","5","/","h","e","r","o",".","w","e","b","p">>) }

OtherImages ==
  { Str(<<"i","m","g","/","a",".","p","n","g">>),
    Str(<<"h","t","t","p","d","-","l","o","g","o",".","p","n","g">>),
    Str(<<"/","/","c","d","n",".","e","x","a","m","p","l","e",".","c","o","m","/","a",".","p","n","g">>),
    Str(<<"f","t","p",":","/","/","e","x","a","m","p","l","e",".","c","o","m","/","a",".","p","n","g">>) }

Images == {Undefined, Str(<<>>)} \cup AbsoluteImages \cup RelativeImages \cup OtherImages

SiteUrls == {SITE_CONFIG.url, <<"h","t","t","p","s",":","/","/","e","x","a","m","p","l","e",".","c","o","m">>}

PageUrl == Str(<<"h","t","t","p","s",":","/","/","b","l","o","g",".","l","o","c","a","l","h","a","k","e",".","c","o","m","/","b","l","o","g","/","t","e","s","t","-","p","o","s","t">>)

DefaultBlogProps ==
  [title         |-> Str(<<"T">>),
   description   |-> Str(<<"D">>),
   datePublished |-> Str(<<"2","0","2","4","-","0","1","-","1","5">>),
   dateModified  |-> Undefined,
   authorName    |-> Str(<<"H","a","k","e">>),
   image         |-> Undefined,
   url           |-> PageUrl]

DefaultArticleProps ==
  [title |-> Str(<<"T">>), description |-> Undefined, url |-> PageUrl, siteUrl |-> Str(SITE_CONFIG.url)]

(* blogPostPropsArbitrary with the optional dateModified and image.        *)
BlogPostPages ==
  {[family  |-> "blogPost",
    blog    |-> [title         |-> ti,
                 description   |-> d,
                 datePublished |-> Str(<<"2","0","2","4","-","0","1","-","1","5">>),
                 dateModified  |-> dm,
                 authorName    |-> Str(<<" ","A","."," ","B"," ">>),
                 image         |-> im,
                 url           |-> PageUrl],
    article |-> DefaultArticleProps] :
     ti \in Titles, d \in Descriptions,
     dm \in {Undefined, Str(<<>>), Str(<<"2","0","2","4","-","0","2","-","0","1">>)},
     im \in {Undefined, Str(<<>>), Str(<<"h","t","t","p","s",":","/","/","c","d","n",".","e","x","a","m","p","l","e",".","c","o","m","/","i","m","g","/","a",".","p","n","g">>)}}

(* articlePropsWithOptionalDescriptionArbitrary                            *)
ArticlePages ==
  {[family  |-> "article",
    blog    |-> DefaultBlogProps,
    article |-> [title |-> ti, description |-> d, url |-> PageUrl, siteUrl |-> Str(su)]] :
     ti \in Titles, d \in {Undefined} \cup Descriptions, su \in SiteUrls}

Keywords == {<<"d","o","c","k","e","r">>, <<"n","a","s">>}

KeywordLists == {Undefined} \cup {Arr(ks) : ks \in StringsOver(Keywords, MaxKeywords)}

AuthorLists ==
  { Undefined,
    Arr(<<>>),
    Arr(<< [name |-> Undefined] , [name |-> Str(<<"B","o","b">>)] >>),
    Arr(<< [name |-> Str(<<>>)] , [name |-> Str(<<"B","o","b">>)] >>),
    Arr(<< [name |-> Str(<<"A","n","n">>)] >>),
    Arr(<< [name |-> Str(<<"A","n","n">>)], [name |-> Str(<<"B","o","b">>)] >>) }

FrontMatters ==
  {[t |-> "object", image |-> im, keywords |-> ks, description |-> d] :
     im \in Images, ks \in KeywordLists, d \in {Undefined, Str(<<>>), Str(<<"D">>)}}

(* A blog post as the wrapper receives it: metadata and front matter.      *)
PostPages ==
  {[family  |-> "post",
    content |-> [metadata    |-> [title       |-> Str(<<"T">>),
                                  description |-> fm.description,
                                  date        |-> Str(<<"2","0","2","4","-","0","1","-","1","5">>),
                                  authors     |-> au,
                                  permalink   |-> Str(<<"/","b","l","o","g","/","t","e","s","t","-","p","o","s","t">>)],
                 frontMatter |-> fm]] :
     fm \in FrontMatters, au \in AuthorLists}
    \cup
  {[family  |-> "post",
    content |-> [metadata    |-> [title       |-> Str(<<"T">>),
                                  description |-> Undefined,
                                  date        |-> Str(<<"2","0","2","4","-","0","1","-","1","5">>),
                                  authors     |-> Undefined,
                                  permalink   |-> Str(<<"/","b","l","o","g","/","t","e","s","t","-","p","o","s","t">>)],
                 frontMatter |-> Undefined]]}

Pages == BlogPostPages \cup ArticlePages \cup PostPages

NoPage == [family |-> "none"]

----------------------------------------------------------------------------
(* The state machine: an input is drawn, then each validator is called on  *)
(* it once, in either order.  amazonTlds is the module-level array         *)
(* AMAZON_TLDS as the calls made so far have left it.                      *)

NotCalled == [kind |-> "none"]

NoProps == [component |-> "none"]

NoOut ==
  [blogPosting |-> NotCalled, article |-> NotCalled, blogParsed |-> NotCalled,
   articleParsed |-> NotCalled, resolved |-> NotCalled, wrapperProps |-> NotCalled,
   wrapperDoc |-> NotCalled, metaTags |-> NotCalled]

Init ==
  /\ arb \in Arbitraries
  /\ input = Render(arb)
  /\ ytResult = NotCalled
  /\ amzResult = NotCalled
  /\ amazonTlds = AMAZON_TLDS
  /\ calls = <<>>
  /\ page = NoPage
  /\ out = NoOut
  /\ componentProps = NoProps
  /\ rendered = NotCalled
  /\ heap = <<>>
  /\ docs = <<>>
  /\ writes = {}

CallParseYouTubeUrl ==
  /\ ytResult = NotCalled
  /\ ytResult' = parseYouTubeUrl(input)
  /\ UNCHANGED <<arb, input, amzResult, amazonTlds, calls>>
  /\ UNCHANGED seoVars
  /\ UNCHANGED componentVars
  /\ UNCHANGED heapVars

CallParseAmazonUrl ==
  /\ amzResult = NotCalled
  /\ amzResult' = parseAmazonUrl(input)
  /\ amazonTlds' = forOfAmazonTlds(amazonTlds)
  /\ UNCHANGED <<arb, input, ytResult, calls>>
  /\ UNCHANGED seoVars
  /\ UNCHANGED componentVars
  /\ UNCHANGED heapVars

Next == CallParseYouTubeUrl \/ CallParseAmazonUrl

Spec == Init /\ [][Next]_vars

----------------------------------------------------------------------------
(* Repeated calls: an input is drawn, then the validators are called any   *)
(* number of times (up to MaxCalls), on the drawn input or on another one, *)
(* in any order.  calls is the list of the calls made, each with its       *)
(* argument and its result.                                                *)

MaxCalls == 3

Validators == {"parseYouTubeUrl", "parseAmazonUrl"}

Call(fn, arg, result) == [fn |-> fn, arg |-> arg, result |-> result]

RepeatArbs ==
  {UrlArb(pl, <<"h","t","t","p","s">>, Plain, h, <<>>, sh, <<"a","Z","7","_","-">>, <<>>) :
     pl \in Pads,
     h \in { <<"y","o","u","t","u",".","b","e">>,
          <<"W","w","w",".","Y","o","u","T","u","b","e",".","C","o","m">>,
          <<"e","x","a","m","p","l","e",".","c","o","m">>,
          <<"a","m","z","n",".","t","o">>,
          <<"w","w","w",".","a","m","a","z","o","n",".","c","o",".","u","k">>,
          <<"a","m","a","z","o","n","-","f","a","k","e",".","c","o","m">> },
     sh \in {"short", "embed"}}
    \cup NonStringArbs
    \cup {[family |-> "text", s |-> s] : s \in {<<>>, <<" ">>, <<"a">>}}

(* Inputs of the calls made in between.                                    *)
OtherInputs ==
  { Str(<<"h","t","t","p","s",":","/","/","s","m","i","l","e",".","a","m","a","z","o","n",".","s","a","/","d","p","/","B","0">>),
    Str(<<"h","t","t","p","s",":","/","/","m",".","y","o","u","t","u","b","e",".","c","o","m","/","w","a","t","c","h","?","v","=","d","Q","w","4">>) }

RepeatInputs == {input} \cup OtherInputs

RepeatInit ==
  /\ arb \in RepeatArbs
  /\ input = Render(arb)
  /\ ytResult = NotCalled
  /\ amzResult = NotCalled
  /\ amazonTlds = AMAZON_TLDS
  /\ calls = <<>>
  /\ page = NoPage
  /\ out = NoOut
  /\ componentProps = NoProps
  /\ rendered = NotCalled
  /\ heap = <<>>
  /\ docs = <<>>
  /\ writes = {}

RepeatParseYouTubeUrl ==
  /\ Len(calls) < MaxCalls
  /\ \E x \in RepeatInputs :
       calls' = Append(calls, Call("parseYouTubeUrl", x, parseYouTubeUrl(x)))
  /\ UNCHANGED <<arb, input, ytResult, amzResult, amazonTlds>>
  /\ UNCHANGED seoVars
  /\ UNCHANGED componentVars
  /\ UNCHANGED heapVars

RepeatParseAmazonUrl ==
  /\ Len(calls) < MaxCalls
  /\ \E x \in RepeatInputs :
       calls' = Append(calls, Call("parseAmazonUrl", x, parseAmazonUrl(x)))
  /\ amazonTlds' = forOfAmazonTlds(amazonTlds)
  /\ UNCHANGED <<arb, input, ytResult, amzResult>>
  /\ UNCHANGED seoVars
  /\ UNCHANGED componentVars
  /\ UNCHANGED heapVars

(* A builder called in between.                                            *)
RepeatGenerateBlogPostingJsonLd ==
  /\ Len(calls) < MaxCalls
  /\ calls' = Append(calls, Call("generateBlogPostingJsonLd", DefaultBlogProps,
                                 Return(generateBlogPostingJsonLd(DefaultBlogProps))))
  /\ UNCHANGED <<arb, input, ytResult, amzResult, amazonTlds>>
  /\ UNCHANGED seoVars
  /\ UNCHANGED componentVars
  /\ UNCHANGED heapVars

(* A mapper called in between.                                             *)
RepeatMapFrontMatterToMetaTags ==
  /\ Len(calls) < MaxCalls
  /\ \E fm \in {f \in FrontMatters : f.image \in AbsoluteImages /\ f.keywords # Undefined
                                     /\ f.keywords.items = <<>> /\ f.description = Undefined} :
       calls' = Append(calls, Call("mapFrontMatterToMetaTags", fm,
                                   Return(mapFrontMatterToMetaTags(fm))))
  /\ UNCHANGED <<arb, input, ytResult, amzResult, amazonTlds>>
  /\ UNCHANGED seoVars
  /\ UNCHANGED componentVars
  /\ UNCHANGED heapVars

RepeatNext ==
  \/ RepeatParseYouTubeUrl
  \/ RepeatParseAmazonUrl
  \/ RepeatGenerateBlogPostingJsonLd
  \/ RepeatMapFrontMatterToMetaTags

RepeatSpec == RepeatInit /\ [][RepeatNext]_vars

----------------------------------------------------------------------------
(* Structured data and meta tags: a page is drawn, then the builders are   *)
(* called on its props and their documents sent through JSON, or the       *)
(* wrapper and the mappers are applied to its front matter.                *)

SeoInit ==
  /\ page \in Pages
  /\ out = NoOut
  /\ arb = [family |-> "none"]
  /\ input = Undefined
  /\ ytResult = NotCalled
  /\ amzResult = NotCalled
  /\ amazonTlds = AMAZON_TLDS
  /\ calls = <<>>
  /\ componentProps = NoProps
  /\ rendered = NotCalled
  /\ heap = <<>>
  /\ docs = <<>>
  /\ writes = {}

StructuredPage == page.family \in {"blogPost", "article"}

CallGenerateBlogPostingJsonLd ==
  /\ StructuredPage
  /\ out.blogPosting = NotCalled
  /\ out' = [out EXCEPT !.blogPosting = Return(generateBlogPostingJsonLd(page.blog))]
  /\ UNCHANGED page
  /\ UNCHANGED validatorVars
  /\ UNCHANGED componentVars
  /\ UNCHANGED heapVars

CallGenerateArticleJsonLd ==
  /\ StructuredPage
  /\ out.article = NotCalled
  /\ out' = [out EXCEPT !.article = Return(generateArticleJsonLd(page.article))]
  /\ UNCHANGED page
  /\ UNCHANGED validatorVars
  /\ UNCHANGED componentVars
  /\ UNCHANGED heapVars

(* JSON.parse(JSON.stringify(jsonLd))                                      *)
RoundTripBlogPosting ==
  /\ out.blogPosting # NotCalled
  /\ out.blogParsed = NotCalled
  /\ out' = [out EXCEPT !.blogParsed = JSONparse(JSONstringify(out.blogPosting.value))]
  /\ UNCHANGED page
  /\ UNCHANGED validatorVars
  /\ UNCHANGED componentVars
  /\ UNCHANGED heapVars

RoundTripArticle ==
  /\ out.article # NotCalled
  /\ out.articleParsed = NotCalled
  /\ out' = [out EXCEPT !.articleParsed = JSONparse(JSONstringify(out.article.value))]
  /\ UNCHANGED page
  /\ UNCHANGED validatorVars
  /\ UNCHANGED componentVars
  /\ UNCHANGED heapVars

CallResolveImageUrl ==
  /\ page.family = "post"
  /\ out.resolved = NotCalled
  /\ out' = [out EXCEPT !.resolved = Return(resolveImageUrl(frontMatterImage(page.content.frontMatter)))]
  /\ UNCHANGED page
  /\ UNCHANGED validatorVars
  /\ UNCHANGED componentVars
  /\ UNCHANGED heapVars

(* The wrapper renders BlogPostStructuredData with the props it has built, *)
(* which builds the document from them.                                    *)
renderedWrapper(o, structuredDataProps) ==
  [o EXCEPT !.wrapperProps = Return(structuredDataProps),
            !.wrapperDoc = Return(generateBlogPostingJsonLd(structuredDataProps))]

RenderBlogPostPageWrapper ==
  /\ page.family = "post"
  /\ out.wrapperProps = NotCalled
  /\ out' = renderedWrapper(out, BlogPostPageWrapper(SITE_CONFIG.url, page.content))
  /\ UNCHANGED page
  /\ UNCHANGED validatorVars
  /\ UNCHANGED componentVars
  /\ UNCHANGED heapVars

CallMapFrontMatterToMetaTags ==
  /\ page.family = "post"
  /\ page.content.frontMatter # Undefined
  /\ out.metaTags = NotCalled
  /\ out' = [out EXCEPT !.metaTags = Return(mapFrontMatterToMetaTags(page.content.frontMatter))]
  /\ UNCHANGED page
  /\ UNCHANGED validatorVars
  /\ UNCHANGED componentVars
  /\ UNCHANGED heapVars

SeoNext ==
  \/ CallGenerateBlogPostingJsonLd
  \/ CallGenerateArticleJsonLd
  \/ RoundTripBlogPosting
  \/ RoundTripArticle
  \/ CallResolveImageUrl
  \/ RenderBlogPostPageWrapper
  \/ CallMapFrontMatterToMetaTags

SeoSpec == SeoInit /\ [][SeoNext]_vars

----------------------------------------------------------------------------
(* Components: the props of one component are drawn, then the component is *)
(* rendered once (formatTime is called once).                              *)

MaxMinutes == 125

ComponentTitles ==
  { Undefined, Str(<<>>), Str(<<" "," ">>), Str(<<"E","c","h","o"," ","D","o","t">>), Str(<<" ","A"," ","&"," ","B"," ">>) }

TitledUrls == {Render(a) : a \in RepeatArbs} \cup OtherInputs

YouTubeProps ==
  {[component |-> "YouTube", url |-> Render(a), title |-> Undefined] :
     a \in VideoUrlArbs \cup VideoHostArbs \cup DecoratedArbs \cup TextArbs \cup NonStringArbs}
    \cup
  {[component |-> "YouTube", url |-> u, title |-> ti] : u \in TitledUrls, ti \in ComponentTitles}

AffiliateLinkProps ==
  {[component |-> "AffiliateLink", url |-> Render(a), title |-> Undefined] :
     a \in ShopUrlArbs \cup DecoratedArbs \cup TextArbs \cup NonStringArbs}
    \cup
  {[component |-> "AffiliateLink", url |-> u, title |-> ti] : u \in TitledUrls, ti \in ComponentTitles}

Difficulties == {Undefined, Null, Num(-1), Num(0), Num(1), Num(3), Num(5), Num(6)}

Times == {Undefined, Null, Num(-5), Num(0), Num(1), Num(45), Num(90), Num(120), Str(<<"4","5">>)}

VideoUrls ==
  { Undefined, Null, Str(<<>>), Str(<<" ","\t">>), Num(7),
    Str(<<" ","h","t","t","p","s",":","/","/","y","o","u","t","u",".","b","e","/","d","Q","w","4"," ">>) }

InfoCardProps ==
  {[component |-> "InfoCard", difficulty |-> d, time |-> ti, videoUrl |-> v] :
     d \in Difficulties, ti \in Times, v \in VideoUrls}

FormatTimeArgs ==
  {[component |-> "formatTime", minutes |-> Num(m)] : m \in (0 - MaxMinutes)..MaxMinutes}
    \cup {[component |-> "formatTime", minutes |-> v] : v \in {Undefined, Null, Str(<<"4","5">>)}}

ComponentInit ==
  /\ componentProps \in YouTubeProps \cup AffiliateLinkProps \cup InfoCardProps \cup FormatTimeArgs
  /\ rendered = NotCalled
  /\ heap = <<>>
  /\ docs = <<>>
  /\ writes = {}
  /\ arb = [family |-> "none"]
  /\ input = Undefined
  /\ ytResult = NotCalled
  /\ amzResult = NotCalled
  /\ amazonTlds = AMAZON_TLDS
  /\ calls = <<>>
  /\ page = NoPage
  /\ out = NoOut

RenderYouTube ==
  /\ componentProps.component = "YouTube"
  /\ rendered = NotCalled
  /\ rendered' = YouTube(componentProps)
  /\ UNCHANGED componentProps
  /\ UNCHANGED validatorVars
  /\ UNCHANGED seoVars
  /\ UNCHANGED heapVars

RenderAffiliateLink ==
  /\ componentProps.component = "AffiliateLink"
  /\ rendered = NotCalled
  /\ rendered' = AffiliateLink(componentProps)
  /\ amazonTlds' = forOfAmazonTlds(amazonTlds)
  /\ UNCHANGED <<arb, input, ytResult, amzResult, calls, componentProps>>
  /\ UNCHANGED seoVars
  /\ UNCHANGED heapVars

RenderInfoCard ==
  /\ componentProps.component = "InfoCard"
  /\ rendered = NotCalled
  /\ rendered' = Return(InfoCard(componentProps))
  /\ UNCHANGED componentProps
  /\ UNCHANGED validatorVars
  /\ UNCHANGED seoVars
  /\ UNCHANGED heapVars

CallFormatTime ==
  /\ componentProps.component = "formatTime"
  /\ rendered = NotCalled
  /\ rendered' = Return(formatTime(componentProps.minutes))
  /\ UNCHANGED componentProps
  /\ UNCHANGED validatorVars
  /\ UNCHANGED seoVars
  /\ UNCHANGED heapVars

ComponentNext ==
  \/ RenderYouTube
  \/ RenderAffiliateLink
  \/ RenderInfoCard
  \/ CallFormatTime

ComponentSpec == ComponentInit /\ [][ComponentNext]_vars

----------------------------------------------------------------------------
(* Builders and their callers on the heap: the two props records are made, *)
(* then the builders are called on them any number of times (up to         *)
(* MaxDocs) and the callers write into the documents they were handed (up  *)
(* to MaxWrites members).  docs lists the calls with the document each     *)
(* returned, writes the members written since.                             *)

MaxDocs == 2

MaxWrites == 2

(* The two props records are the first objects made.                       *)
PropsAt(fn) == IF fn = "generateBlogPostingJsonLd" THEN 1 ELSE 2

BlogPropsAt == PropsAt("generateBlogPostingJsonLd")

ArticlePropsAt == PropsAt("generateArticleJsonLd")

HeapPages ==
  {[family  |-> "heap",
    blog    |-> [DefaultBlogProps EXCEPT !.image = im, !.dateModified = dm],
    article |-> [DefaultArticleProps EXCEPT !.description = d]] :
     im \in {Undefined, Str(<<"h","t","t","p","s",":","/","/","c","d","n",".","e","x","a","m","p","l","e",".","c","o","m","/","i","m","g","/","a",".","p","n","g">>)},
     dm \in {Undefined},
     d \in {Undefined, Str(<<"D">>)}}

WrittenKeys == {<<"@","t","y","p","e">>, <<"n","a","m","e">>}

WrittenValue == Str(<<"x">>)

HeapInit ==
  /\ page \in HeapPages
  /\ heap = <<PropsObject(page.blog), PropsObject(page.article)>>
  /\ docs = <<>>
  /\ writes = {}
  /\ out = NoOut
  /\ componentProps = NoProps
  /\ rendered = NotCalled
  /\ arb = [family |-> "none"]
  /\ input = Undefined
  /\ ytResult = NotCalled
  /\ amzResult = NotCalled
  /\ amazonTlds = AMAZON_TLDS
  /\ calls = <<>>

(* A call that returned the document doc, stored as r.                     *)
Returned(fn, propsAt, doc, r) ==
  /\ heap' = r.heap
  /\ docs' = Append(docs, [fn |-> fn, props |-> propsAt, root |-> r.ref, returned |-> doc])

HeapGenerateBlogPostingJsonLd ==
  /\ Len(docs) < MaxDocs
  /\ Returned("generateBlogPostingJsonLd", BlogPropsAt,
              generateBlogPostingJsonLd(heap[BlogPropsAt].fields),
              store(heap, generateBlogPostingJsonLd(heap[BlogPropsAt].fields)))
  /\ UNCHANGED writes
  /\ UNCHANGED validatorVars
  /\ UNCHANGED seoVars
  /\ UNCHANGED componentVars

HeapGenerateArticleJsonLd ==
  /\ Len(docs) < MaxDocs
  /\ Returned("generateArticleJsonLd", ArticlePropsAt,
              generateArticleJsonLd(heap[ArticlePropsAt].fields),
              store(heap, generateArticleJsonLd(heap[ArticlePropsAt].fields)))
  /\ UNCHANGED writes
  /\ UNCHANGED validatorVars
  /\ UNCHANGED seoVars
  /\ UNCHANGED componentVars

(* A caller writes a member of a document or of one of its sub-records.    *)
WriteIntoDocument ==
  /\ Cardinality(writes) < MaxWrites
  /\ \E i \in 1..Len(docs) :
       \E a \in Reach(heap, docs[i].root) :
         \E k \in WrittenKeys :
           /\ <<i, a, k>> \notin writes
           /\ heap' = [heap EXCEPT ![a] = setProp(heap[a], k, WrittenValue)]
           /\ writes' = writes \cup {<<i, a, k>>}
  /\ UNCHANGED docs
  /\ UNCHANGED validatorVars
  /\ UNCHANGED seoVars
  /\ UNCHANGED componentVars

HeapNext ==
  \/ HeapGenerateBlogPostingJsonLd
  \/ HeapGenerateArticleJsonLd
  \/ WriteIntoDocument

HeapSpec == HeapInit /\ [][HeapNext]_vars

----------------------------------------------------------------------------
(* Properties                                                              *)

YtReturned == ytResult.kind = "return"

AmzReturned == amzResult.kind = "return"

IsString(v) == v.t = "string"

NonEmptyMessage(v) == IsString(v) /\ v.s # ""

OnlyIdChars(s) ==
  /\ s # <<>>
  /\ \A i \in 1..Len(s) : s[i] \in AlnumSet \cup {"_", "-"}

(* The input is a URL written scheme://host/path, nothing around the host. *)
PlainUrl == arb.family = "url" /\ arb.pre = Plain /\ arb.post = <<>>

(* What new URL makes of the input string.                                 *)
InputUrl == IF IsString(input) THEN newURL(input.s) ELSE Failure

InputHost == toLowerCase(InputUrl.hostname)

HttpProtocols == { <<"h","t","t","p",":">>, <<"h","t","t","p","s",":">> }

\* C1: every result of parseYouTubeUrl and of parseAmazonUrl has exactly one
\* of its two fields non-null: the value is a string and error is null, or
\* the value is null and error is a non-empty string.
C1_MutualExclusivity ==
  /\ YtReturned =>
       \/ (IsString(ytResult.value.videoId) /\ ytResult.value.error = Null)
       \/ (ytResult.value.videoId = Null /\ NonEmptyMessage(ytResult.value.error))
  /\ AmzReturned =>
       \/ (IsString(amzResult.value.url) /\ amzResult.value.error = Null)
       \/ (amzResult.value.url = Null /\ NonEmptyMessage(amzResult.value.error))

(* One input on which the video validator fails its format check and the   *)
(* shop validator fails too, both with a null value.                       *)
C1_Witness ==
  /\ YtReturned /\ AmzReturned
  /\ ytResult.value = ParsedVideoId(Null, Str(ErrInvalidVideoId))
  /\ amzResult.value.url = Null

\* C2: for every identifier of characters A-Z a-z 0-9 _ - and every
\* supported host, youtu.be/<id>, <youtube host>/watch?v=<id>,
\* <youtube host>/embed/<id> and <youtube host>/v/<id> all yield
\* {videoId: id, error: null}.
C2_FourShapes ==
  ( /\ YtReturned
    /\ PlainUrl
    /\ OnlyIdChars(arb.token)
    /\ \/ (toLowerCase(arb.host) = <<"y","o","u","t","u",".","b","e">> /\ arb.shape = "short")
       \/ (toLowerCase(arb.host) \in YouTubeHosts \ {<<"y","o","u","t","u",".","b","e">>}
             /\ arb.shape \in {"watch", "embed", "v"}) )
  => ytResult.value = ParsedVideoId(Str(arb.token), Null)

C2_Witness ==
  /\ YtReturned /\ PlainUrl
  /\ arb.host = <<"m",".","y","o","u","t","u","b","e",".","c","o","m">> /\ arb.shape = "v" /\ arb.token = <<"_", "Z">>
  /\ ytResult.value.videoId = Str(arb.token)

\* C3: parseYouTubeUrl returns a videoId only when the parsed hostname, in
\* lower case, is youtu.be, youtube.com, www.youtube.com or m.youtube.com;
\* every parseable URL with another hostname gets the not-a-YouTube-link
\* reason.
C3_SupportedHostsOnly ==
  YtReturned =>
    /\ ytResult.value.videoId # Null => (InputUrl.ok /\ InputHost \in YouTubeHosts)
    /\ (InputUrl.ok /\ InputHost \notin YouTubeHosts)
         => ytResult.value = ParsedVideoId(Null, Str(ErrNotYouTube))
    /\ (PlainUrl /\ arb.host \in OtherVideoHosts)
         => ytResult.value = ParsedVideoId(Null, Str(ErrNotYouTube))

C3_Witness ==
  /\ YtReturned /\ PlainUrl
  /\ arb.host = <<"m","u","s","i","c",".","y","o","u","t","u","b","e",".","c","o","m">> /\ arb.shape = "watch"
  /\ OnlyIdChars(arb.token)
  /\ ytResult.value.error = Str(ErrNotYouTube)

(* The part of s before its first '?'.                                     *)
BeforeQuestionMark(s) ==
  IF \E i \in 1..Len(s) : s[i] = "?"
  THEN SubSeq(s, 1, (CHOOSE i \in 1..Len(s) : s[i] = "?" /\ \A j \in 1..(i - 1) : s[j] # "?") - 1)
  ELSE s

\* C4: a returned videoId is non-empty and made of A-Z a-z 0-9 _ - only;
\* an extracted value is cut at its first '?' before the format check, so
\* v=abc?x is accepted as abc and a value that is empty after the cut is
\* rejected.
C4_IdFormat ==
  YtReturned =>
    /\ IsString(ytResult.value.videoId) => OnlyIdChars(ytResult.value.videoId.s)
    /\ ( /\ PlainUrl
         /\ arb.shape = "watch"
         /\ toLowerCase(arb.host) \in YouTubeHosts \ {<<"y","o","u","t","u",".","b","e">>}
         /\ arb.token \in Tokens
         /\ \E i \in 1..Len(arb.token) : arb.token[i] = "?" )
       => IF OnlyIdChars(BeforeQuestionMark(arb.token))
          THEN ytResult.value = ParsedVideoId(Str(BeforeQuestionMark(arb.token)), Null)
          ELSE ytResult.value = ParsedVideoId(Null, Str(ErrInvalidVideoId))

C4_Witness ==
  /\ YtReturned /\ PlainUrl /\ arb.shape = "watch"
  /\ arb.token = <<"a", "?">>
  /\ ytResult.value = ParsedVideoId(Str(<<"a">>), Null)

(* The five conditions of a failing video call, on a string input.         *)
NoInputGiven == trim(input.s) = <<>>

Unparseable == ~NoInputGiven /\ ~InputUrl.ok

HostUnsupported == InputUrl.ok /\ InputHost \notin YouTubeHosts

Extracted == extractVideoId(InputHost, InputUrl)

NothingExtracted == InputUrl.ok /\ InputHost \in YouTubeHosts /\ Falsy(Extracted)

BadIdentifier ==
  /\ InputUrl.ok /\ InputHost \in YouTubeHosts /\ ~Falsy(Extracted)
  /\ ~OnlyIdChars(BeforeQuestionMark(Extracted.s))

VideoReasons ==
  {ErrNoVideoUrl, ErrInvalidUrlFormat, ErrNotYouTube, ErrCouldNotExtract, ErrInvalidVideoId}

\* C5: a failing call of parseYouTubeUrl reports one of five pairwise
\* distinct reasons and no other; on a string input each reason is reported
\* exactly under its condition: no input, unparseable, host unsupported,
\* nothing extracted, identifier of the wrong format.
C5_FiveReasons ==
  /\ Cardinality(VideoReasons) = 5
  /\ (YtReturned /\ ytResult.value.videoId = Null) =>
       /\ IsString(ytResult.value.error)
       /\ ytResult.value.error.s \in VideoReasons
       /\ IsString(input) =>
            /\ ytResult.value.error.s = ErrNoVideoUrl <=> NoInputGiven
            /\ ytResult.value.error.s = ErrInvalidUrlFormat <=> Unparseable
            /\ ytResult.value.error.s = ErrNotYouTube <=> HostUnsupported
            /\ ytResult.value.error.s = ErrCouldNotExtract <=> NothingExtracted
            /\ ytResult.value.error.s = ErrInvalidVideoId <=> BadIdentifier

C5_Witness ==
  /\ YtReturned /\ PlainUrl
  /\ arb.host = <<"w","w","w",".","y","o","u","t","u","b","e",".","c","o","m">> /\ arb.shape = "shorts"
  /\ ytResult.value = ParsedVideoId(Null, Str(ErrCouldNotExtract))

(* r is s without the white space at its two ends.                         *)
IsTrimOf(r, s) ==
  /\ r = <<>> \/ (r[1] \notin JsWhiteSpace /\ r[Len(r)] \notin JsWhiteSpace)
  /\ \E i \in 0..(Len(s) - Len(r)) :
       /\ SubSeq(s, i + 1, i + Len(r)) = r
       /\ \A j \in 1..Len(s) : (j <= i \/ j > i + Len(r)) => s[j] \in JsWhiteSpace

\* C6: an accepted input comes back from parseAmazonUrl with only its
\* leading and trailing white space removed, character for character; an
\* accepted input without surrounding white space comes back identical.
C6_UrlUnchanged ==
  (AmzReturned /\ amzResult.value.url # Null) =>
    /\ IsString(input) /\ IsString(amzResult.value.url)
    /\ IsTrimOf(amzResult.value.url.s, input.s)
    /\ (arb.family = "url" /\ arb.pl = <<>> /\ arb.pr = <<>>) => amzResult.value.url = input

C6_Witness ==
  /\ AmzReturned /\ arb.family = "url"
  /\ arb.scheme = <<"H","T","T","P","S">> /\ arb.host = <<"S","m","i","l","e",".","A","m","a","z","o","n",".","C","o",".","U","k">>
  /\ arb.token = <<"/","d","p","/","B","0","8","N","5","W","R","W","N","W","?","t","a","g","=","a","-","2","0","&","r","e","f","=","x","#","r">>
  /\ amzResult.value = ParsedAmazonUrl(input, Null)

\* C7: parseAmazonUrl returns a url only when the parsed hostname, in lower
\* case, is amzn.to or amazon.<tld>, www.amazon.<tld>, smile.amazon.<tld>
\* for one of the 16 TLDs; every other parseable http/https URL, the
\* look-alike hosts included, gets url null and the not-an-Amazon-link
\* reason.
C7_AmazonHostsOnly ==
  /\ Len(AMAZON_TLDS) = 16
  /\ AmzReturned =>
       /\ amzResult.value.url # Null => (InputUrl.ok /\ InputHost \in AmazonHosts)
       /\ (InputUrl.ok /\ InputUrl.protocol \in HttpProtocols /\ InputHost \notin AmazonHosts)
            => amzResult.value = ParsedAmazonUrl(Null, Str(ErrNotAmazon))
       /\ ( /\ PlainUrl /\ arb.host \in OtherShopHosts
            /\ toLowerCase(arb.scheme) \in { <<"h","t","t","p">>, <<"h","t","t","p","s">> } )
            => amzResult.value = ParsedAmazonUrl(Null, Str(ErrNotAmazon))

C7_Witness ==
  /\ AmzReturned /\ PlainUrl
  /\ arb.host = <<"s","u","b",".","a","m","a","z","o","n",".","f","a","k","e",".","c","o","m">> /\ arb.scheme = <<"h","t","t","p","s">>
  /\ amzResult.value = ParsedAmazonUrl(Null, Str(ErrNotAmazon))

\* C8: parseAmazonUrl never returns a url whose scheme is not http or https,
\* also when the host is an accepted Amazon host.
C8_HttpOnly ==
  AmzReturned =>
    /\ amzResult.value.url # Null => (InputUrl.ok /\ InputUrl.protocol \in HttpProtocols)
    /\ ( /\ arb.family = "url"
         /\ toLowerCase(arb.scheme) \notin { <<"h","t","t","p">>, <<"h","t","t","p","s">> } )
       => amzResult.value.url = Null

C8_Witness ==
  /\ AmzReturned /\ PlainUrl
  /\ arb.scheme = <<"f","t","p">> /\ arb.host = <<"w","w","w",".","a","m","a","z","o","n",".","c","o","m">>
  /\ amzResult.value.url = Null /\ NonEmptyMessage(amzResult.value.error)

AmazonReasons == {ErrNoAmazonUrl, ErrInvalidUrlFormat, ErrNotAmazon}

\* C9: a failing call of parseAmazonUrl returns url null with one of exactly
\* three reasons: no input for an empty or white-space-only string, invalid
\* format for an unparseable URL, not an Amazon link for an http/https URL
\* on an unsupported host.
C9_ThreeReasons ==
  /\ Cardinality(AmazonReasons) = 3
  /\ (AmzReturned /\ amzResult.value.error # Null) =>
       /\ amzResult.value.url = Null
       /\ IsString(amzResult.value.error)
       /\ amzResult.value.error.s \in AmazonReasons
       /\ IsString(input) =>
            /\ NoInputGiven => amzResult.value.error.s = ErrNoAmazonUrl
            /\ Unparseable => amzResult.value.error.s = ErrInvalidUrlFormat
            /\ ( /\ InputUrl.ok /\ InputUrl.protocol \in HttpProtocols
                 /\ InputHost \notin AmazonHosts )
               => amzResult.value.error.s = ErrNotAmazon

C9_Witness ==
  /\ AmzReturned /\ arb.family = "url"
  /\ arb.scheme = <<"f","t","p">> /\ arb.host = <<"a","m","z","n",".","t","o">>
  /\ amzResult.value = ParsedAmazonUrl(Null, Str(ErrInvalidUrlFormat))

\* C10: both validators return a record for every input, strings of every
\* kind and values that are no strings; neither throws, and a call without
\* a value reports its reason in the error field of the record.
C10_NeverThrows ==
  /\ ytResult # NotCalled =>
       /\ YtReturned
       /\ ytResult.value.videoId = Null => NonEmptyMessage(ytResult.value.error)
  /\ amzResult # NotCalled =>
       /\ AmzReturned
       /\ amzResult.value.url = Null => NonEmptyMessage(amzResult.value.error)

C10_Witness ==
  /\ input = Num(42)
  /\ YtReturned /\ NonEmptyMessage(ytResult.value.error)
  /\ AmzReturned /\ NonEmptyMessage(amzResult.value.error)

----------------------------------------------------------------------------
(* Properties of repeated calls                                            *)

SameCall(c, d) == c.fn = d.fn /\ c.arg = d.arg

Accepted(c) == c.result.kind = "return" /\ c.result.value.error = Null

\* C11: two calls of the same validator on the same input return equal
\* results, whatever calls were made in between: no call leaves behind
\* state that a later call reads.
C11_Idempotent ==
  \A i \in 1..Len(calls) : \A j \in 1..Len(calls) :
    (calls[i].fn \in Validators /\ SameCall(calls[i], calls[j]))
      => calls[i].result = calls[j].result

C11_Witness ==
  /\ Len(calls) >= 3
  /\ calls[1].fn = "parseAmazonUrl"
  /\ calls[1].arg = input
  /\ Accepted(calls[1])
  /\ calls[2].fn \notin Validators
  /\ SameCall(calls[1], calls[3])
  /\ amazonTlds = AMAZON_TLDS

----------------------------------------------------------------------------
(* Properties of the structured data and of the meta tags                  *)

BlogCalled == out.blogPosting # NotCalled

BlogDoc == out.blogPosting.value

ArticleCalled == out.article # NotCalled

ArticleDoc == out.article.value

get(o, k) == o.at[k]

contextKey == <<"@","c","o","n","t","e","x","t">>

typeKey == <<"@","t","y","p","e">>

idKey == <<"@","i","d">>

headlineKey == <<"h","e","a","d","l","i","n","e">>

descriptionKey == <<"d","e","s","c","r","i","p","t","i","o","n">>

datePublishedKey == <<"d","a","t","e","P","u","b","l","i","s","h","e","d">>

dateModifiedKey == <<"d","a","t","e","M","o","d","i","f","i","e","d">>

authorKey == <<"a","u","t","h","o","r">>

publisherKey == <<"p","u","b","l","i","s","h","e","r">>

mainEntityOfPageKey == <<"m","a","i","n","E","n","t","i","t","y","O","f","P","a","g","e">>

imageKey == <<"i","m","a","g","e">>

nameKey == <<"n","a","m","e">>

logoKey == <<"l","o","g","o">>

urlKey == <<"u","r","l">>

keywordsKey == <<"k","e","y","w","o","r","d","s">>

\* C12: the BlogPosting document always has a description key holding the
\* input description, the empty string included, and has an image key
\* exactly when the input image is truthy; an undefined or empty image
\* leaves no image key at all.
C12_DescriptionKeptImageOptional ==
  BlogCalled =>
    /\ hasOwn(BlogDoc, descriptionKey)
    /\ get(BlogDoc, descriptionKey) = page.blog.description
    /\ hasOwn(BlogDoc, imageKey) <=> ~Falsy(page.blog.image)
    /\ page.blog.image \in {Undefined, Str(<<>>)} => ~hasOwn(BlogDoc, imageKey)
    /\ hasOwn(BlogDoc, imageKey) => get(BlogDoc, imageKey) = page.blog.image

C12_Witness ==
  /\ BlogCalled
  /\ page.blog.description = Str(<<>>)
  /\ page.blog.image = Str(<<>>)
  /\ get(BlogDoc, descriptionKey) = Str(<<>>)
  /\ ~hasOwn(BlogDoc, imageKey)

\* C13 as stated: dateModified of the BlogPosting document is the input
\* datePublished when dateModified is not given (undefined), and the given
\* dateModified in every other case.
C13_AsStated ==
  BlogCalled =>
    get(BlogDoc, dateModifiedKey) =
      IF page.blog.dateModified = Undefined THEN page.blog.datePublished
      ELSE page.blog.dateModified

\* C13: dateModified of the BlogPosting document is the input datePublished
\* when the input dateModified is undefined or the empty string, and the
\* input dateModified when that is a non-empty string.
C13_DateModifiedDefault ==
  BlogCalled =>
    get(BlogDoc, dateModifiedKey) =
      IF page.blog.dateModified \in {Undefined, Str(<<>>)} THEN page.blog.datePublished
      ELSE page.blog.dateModified

C13_Witness ==
  /\ BlogCalled
  /\ page.blog.dateModified = Str(<<>>)
  /\ get(BlogDoc, dateModifiedKey) = page.blog.datePublished
  /\ get(BlogDoc, dateModifiedKey) # Str(<<>>)

ExpectedLogo(url) ==
  Object(<<typeKey, urlKey>>,
         [k \in {typeKey, urlKey} |->
            IF k = typeKey THEN Str(<<"I","m","a","g","e","O","b","j","e","c","t">>) ELSE url])

ExpectedPublisher(logoUrl) ==
  Object(<<typeKey, nameKey, logoKey>>,
         [k \in {typeKey, nameKey, logoKey} |->
            CASE k = typeKey -> Str(<<"O","r","g","a","n","i","z","a","t","i","o","n">>)
              [] k = nameKey -> Str(<<"L","o","c","a","l","h","a","k","e">>)
              [] k = logoKey -> ExpectedLogo(logoUrl)])

\* C14: the BlogPosting document carries title, datePublished, authorName
\* and url exactly as given (nothing trimmed, escaped or rewritten) under
\* headline, datePublished, author.name and mainEntityOfPage.@id, and the
\* fixed values @context 'https://schema.org', @type 'BlogPosting', author
\* type 'Person', page type 'WebPage' and the Localhake publisher with its
\* fixed logo, whatever the input.
C14_VerbatimAndFixed ==
  BlogCalled =>
    /\ get(BlogDoc, contextKey) = Str(<<"h","t","t","p","s",":","/","/","s","c","h","e","m","a",".","o","r","g">>)
    /\ get(BlogDoc, typeKey) = Str(<<"B","l","o","g","P","o","s","t","i","n","g">>)
    /\ get(BlogDoc, headlineKey) = page.blog.title
    /\ get(BlogDoc, datePublishedKey) = page.blog.datePublished
    /\ DOMAIN get(BlogDoc, authorKey).at = {typeKey, nameKey}
    /\ get(get(BlogDoc, authorKey), typeKey) = Str(<<"P","e","r","s","o","n">>)
    /\ get(get(BlogDoc, authorKey), nameKey) = page.blog.authorName
    /\ DOMAIN get(BlogDoc, mainEntityOfPageKey).at = {typeKey, idKey}
    /\ get(get(BlogDoc, mainEntityOfPageKey), typeKey) = Str(<<"W","e","b","P","a","g","e">>)
    /\ get(get(BlogDoc, mainEntityOfPageKey), idKey) = page.blog.url
    /\ deepEqual(get(BlogDoc, publisherKey),
                 ExpectedPublisher(Str(<<"h","t","t","p","s",":","/","/","b","l","o","g",".","l","o","c","a","l","h","a","k","e",".","c","o","m","/","i","m","g","/","f","a","v","i","c","o","n",".","p","n","g">>)))

C14_Witness ==
  /\ BlogCalled
  /\ page.blog.title = Str(<<" ", "\"">>)
  /\ get(BlogDoc, headlineKey) = Str(<<" ", "\"">>)
  /\ get(get(BlogDoc, authorKey), nameKey) = Str(<<" ","A","."," ","B"," ">>)

\* C15: the Article document has a description key, holding the input
\* description, exactly when the input description is truthy; a missing,
\* undefined or empty description leaves no key, where the BlogPosting
\* document keeps an empty description.
C15_ArticleDescriptionOptional ==
  ArticleCalled =>
    /\ hasOwn(ArticleDoc, descriptionKey) <=> ~Falsy(page.article.description)
    /\ page.article.description \in {Undefined, Str(<<>>)} => ~hasOwn(ArticleDoc, descriptionKey)
    /\ hasOwn(ArticleDoc, descriptionKey) =>
         get(ArticleDoc, descriptionKey) = page.article.description

C15_Witness ==
  /\ ArticleCalled
  /\ page.article.description = Str(<<>>)
  /\ ~hasOwn(ArticleDoc, descriptionKey)

\* C16 as stated: the publisher of the Article document equals the
\* publisher of the BlogPosting document, logo URL included, for every
\* input.
C16_AsStated ==
  (BlogCalled /\ ArticleCalled) =>
    deepEqual(get(ArticleDoc, publisherKey), get(BlogDoc, publisherKey))

\* C16: the publisher of the Article document has the keys, the @type, the
\* name and the logo @type of the BlogPosting publisher; its logo URL is
\* the input siteUrl followed by '/img/favicon.png', so the two publishers
\* are equal exactly when siteUrl is 'https://blog.localhake.com'.
C16_SamePublisherShape ==
  (BlogCalled /\ ArticleCalled) =>
    /\ deepEqual(get(ArticleDoc, publisherKey),
                 ExpectedPublisher(Str(page.article.siteUrl.s \o <<"/","i","m","g","/","f","a","v","i","c","o","n",".","p","n","g">>)))
    /\ deepEqual(get(BlogDoc, publisherKey),
                 ExpectedPublisher(Str(<<"h","t","t","p","s",":","/","/","b","l","o","g",".","l","o","c","a","l","h","a","k","e",".","c","o","m","/","i","m","g","/","f","a","v","i","c","o","n",".","p","n","g">>)))
    /\ deepEqual(get(ArticleDoc, publisherKey), get(BlogDoc, publisherKey))
         <=> page.article.siteUrl = Str(<<"h","t","t","p","s",":","/","/","b","l","o","g",".","l","o","c","a","l","h","a","k","e",".","c","o","m">>)

C16_Witness ==
  /\ BlogCalled
  /\ ArticleCalled
  /\ page.article.siteUrl = Str(<<"h","t","t","p","s",":","/","/","e","x","a","m","p","l","e",".","c","o","m">>)
  /\ get(get(get(ArticleDoc, publisherKey), logoKey), urlKey)
       = Str(<<"h","t","t","p","s",":","/","/","e","x","a","m","p","l","e",".","c","o","m","/","i","m","g","/","f","a","v","i","c","o","n",".","p","n","g">>)

\* C17: parsing the JSON text of a document of either builder succeeds and
\* gives a document with the same keys and the same values at every depth.
C17_JsonRoundTrip ==
  /\ out.blogParsed # NotCalled =>
       /\ out.blogParsed.kind = "return"
       /\ deepEqual(out.blogParsed.value, BlogDoc)
  /\ out.articleParsed # NotCalled =>
       /\ out.articleParsed.kind = "return"
       /\ deepEqual(out.articleParsed.value, ArticleDoc)

C17_Witness ==
  /\ out.blogParsed # NotCalled
  /\ page.blog.title = Str(<<"\"", "\\">>)
  /\ page.blog.description = Str(<<" ","s","a","y"," ","\"","h","i","\"","\n">>)
  /\ page.blog.image = Undefined
  /\ out.blogParsed.kind = "return"
  /\ get(out.blogParsed.value, headlineKey) = Str(<<"\"", "\\">>)

Resolved == out.resolved.value

FmImage == frontMatterImage(page.content.frontMatter)

(* url.startsWith('http://') || url.startsWith('https://')                 *)
isValidAbsoluteUrl(v) ==
  /\ IsString(v)
  /\ \/ StartsWith(v.s, <<"h","t","t","p",":","/","/">>)
     \/ StartsWith(v.s, <<"h","t","t","p","s",":","/","/">>)

SiteRelative(v) ==
  /\ IsString(v)
  /\ StartsWith(v.s, <<"/">>)
  /\ \A i \in 1..(Len(v.s) - 1) : ~(v.s[i] = "/" /\ v.s[i + 1] = "/")

NoDoubleSlashAfterScheme(s) ==
  /\ StartsWith(s, <<"h","t","t","p","s",":","/","/">>)
  /\ \A i \in 9..(Len(s) - 1) : ~(s[i] = "/" /\ s[i + 1] = "/")

\* C18: resolveImageUrl gives the site URL followed by
\* '/img/localhake-social-card.png' for an absent or empty image, the site
\* URL followed by the path, with no double slash after the scheme, for a
\* site-relative path, and the input itself for an absolute URL.
C18_ImageResolution ==
  out.resolved # NotCalled =>
    /\ FmImage \in {Undefined, Str(<<>>)} =>
         Resolved = Str(<<"h","t","t","p","s",":","/","/","b","l","o","g",".","l","o","c","a","l","h","a","k","e",".","c","o","m","/","i","m","g","/","l","o","c","a","l","h","a","k","e","-","s","o","c","i","a","l","-","c","a","r","d",".","p","n","g">>)
    /\ SiteRelative(FmImage) =>
         /\ Resolved = Str(<<"h","t","t","p","s",":","/","/","b","l","o","g",".","l","o","c","a","l","h","a","k","e",".","c","o","m">> \o FmImage.s)
         /\ NoDoubleSlashAfterScheme(Resolved.s)
    /\ isValidAbsoluteUrl(FmImage) => Resolved = FmImage

C18_Witness ==
  /\ out.resolved # NotCalled
  /\ FmImage = Str(<<"/","i","m","g","/","c","u","s","t","o","m","-","p","o","s","t","-","i","m","a","g","e",".","p","n","g">>)
  /\ Resolved = Str(<<"h","t","t","p","s",":","/","/","b","l","o","g",".","l","o","c","a","l","h","a","k","e",".","c","o","m","/","i","m","g","/","c","u","s","t","o","m","-","p","o","s","t","-","i","m","a","g","e",".","p","n","g">>)

\* C19: the image BlogPostPageWrapper passes on is the one resolveImageUrl
\* gives for the same front-matter image: an absolute URL verbatim, a
\* site-relative path behind the site URL, the default social card for an
\* absent or empty image.
C19_WrapperResolvesImage ==
  (out.wrapperProps # NotCalled /\ out.resolved # NotCalled) =>
    /\ out.wrapperProps.value.image = Resolved
    /\ isValidAbsoluteUrl(FmImage) => out.wrapperProps.value.image = FmImage

RECURSIVE Appended(_)
(* ', ' and a keyword, for every keyword of the list in turn.              *)
Appended(items) ==
  IF items = <<>> THEN <<>> ELSE <<",", " ">> \o Head(items) \o Appended(Tail(items))

Occurs(piece, s) ==
  \E i \in 1..(Len(s) - Len(piece) + 1) : SubSeq(s, i, i + Len(piece) - 1) = piece

MetaKeywords == get(out.metaTags.value, keywordsKey).s

Supplied == page.content.frontMatter.keywords

\* C20: the keywords of mapFrontMatterToMetaTags begin with the whole
\* site-default list; supplied keywords follow it, each behind ', ', in the
\* supplied order with repeats kept, so each of them occurs in the output;
\* with no keywords or an empty list the output is the default list alone
\* and does not end in a separator.
C20_KeywordsAppended ==
  out.metaTags # NotCalled =>
    /\ StartsWith(MetaKeywords, SITE_CONFIG.defaultKeywords)
    /\ MetaKeywords[Len(MetaKeywords)] \notin {",", " "}
    /\ IF Supplied = Undefined
       THEN MetaKeywords = <<"h","o","m","e","l","a","b",","," ","s","e","l","f","-","h","o","s","t","e","d",","," ","p","r","o","x","m","o","x",","," ","d","o","c","k","e","r",","," ","t","u","t","o","r","i","a","l","s",","," ","l","i","n","u","x",","," ","v","i","r","t","u","a","l","i","z","a","t","i","o","n">>
       ELSE /\ MetaKeywords = SITE_CONFIG.defaultKeywords \o Appended(Supplied.items)
            /\ \A i \in 1..Len(Supplied.items) : Occurs(Supplied.items[i], MetaKeywords)
            /\ Supplied.items = <<>> => MetaKeywords = SITE_CONFIG.defaultKeywords

C20_Witness ==
  /\ out.metaTags # NotCalled
  /\ Supplied # Undefined
  /\ Supplied.items = << <<"n","a","s">>, <<"n","a","s">> >>
  /\ MetaKeywords = SITE_CONFIG.defaultKeywords \o <<","," ","n","a","s",","," ","n","a","s">>

----------------------------------------------------------------------------
(* Properties of the components                                            *)

WasRendered == rendered # NotCalled

IsElement(v) == "tag" \in DOMAIN v

(* The elements of a rendered tree.                                        *)
RECURSIVE Nodes(_)
Nodes(e) == {e} \cup UNION {Nodes(e.children[i]) : i \in 1..Len(e.children)}

Tagged(e, tag) == {n \in Nodes(e) : n.tag = tag}

(* The texts directly inside an element.                                   *)
TextsOf(e) == {attr(e.children[i], "nodeValue") : i \in {j \in 1..Len(e.children) : e.children[j].tag = "#text"}}

(* An inline alert that carries the message and holds no iframe, no anchor. *)
IsAlertWith(e, message) ==
  /\ IsElement(e)
  /\ attr(e, "role") = Str("alert")
  /\ NonEmptyMessage(message)
  /\ \E n \in Nodes(e) : message \in TextsOf(n)
  /\ Tagged(e, "iframe") = {} /\ Tagged(e, "a") = {}

ValidatedVideo == parseYouTubeUrl(componentProps.url)

ValidatedLink == parseAmazonUrl(componentProps.url)

\* C21: for every url prop the YouTube and AffiliateLink components render
\* the success element (the player iframe, the anchor whose href is the
\* validated URL) exactly when the validator returns no error, and otherwise
\* an inline role="alert" element that carries a non-empty message and holds
\* no iframe and no anchor; rendering never throws.
C21_SuccessOrAlert ==
  /\ (WasRendered /\ componentProps.component = "YouTube") =>
       /\ rendered.kind = "return"
       /\ ValidatedVideo.kind = "return"
       /\ IF ValidatedVideo.value.error = Null
          THEN /\ IsElement(rendered.value)
               /\ Cardinality(Tagged(rendered.value, "iframe")) = 1
               /\ \A n \in Nodes(rendered.value) : attr(n, "role") # Str("alert")
          ELSE IsAlertWith(rendered.value, ValidatedVideo.value.error)
  /\ (WasRendered /\ componentProps.component = "AffiliateLink") =>
       /\ rendered.kind = "return"
       /\ ValidatedLink.kind = "return"
       /\ IF ValidatedLink.value.error = Null
          THEN /\ IsElement(rendered.value)
               /\ Cardinality(Tagged(rendered.value, "a")) = 1
               /\ \A n \in Tagged(rendered.value, "a") : attr(n, "href") = ValidatedLink.value.url
               /\ \A n \in Nodes(rendered.value) : attr(n, "role") # Str("alert")
          ELSE IsAlertWith(rendered.value, ValidatedLink.value.error)

(* A link to a look-alike host, rendered as an alert.                      *)
C21_Witness ==
  /\ WasRendered /\ componentProps.component = "AffiliateLink"
  /\ componentProps.url = Str(<<"h","t","t","p","s",":","/","/","a","m","a","z","o","n","-","f","a","k","e",".","c","o","m","/","d","p","/","B","0","8","N","5","W","R","W","N","W","?","t","a","g","=","a","-","2","0","&","r","e","f","=","x","#","r">>)
  /\ rendered.kind = "return"
  /\ IsAlertWith(rendered.value, Str(ErrNotAmazon))

LinkRendered ==
  /\ WasRendered /\ componentProps.component = "AffiliateLink"
  /\ rendered.kind = "return" /\ IsElement(rendered.value)
  /\ Tagged(rendered.value, "a") # {}

LinkTexts == UNION {TextsOf(n) : n \in Tagged(rendered.value, "a")}

\* C22: for every valid Amazon URL the link text of AffiliateLink equals the
\* provided title when a non-empty title is provided, and is "View on
\* Amazon" when no title is provided or the title is empty or only white
\* space.
C22_LinkText ==
  LinkRendered =>
    IF componentProps.title = Undefined \/ trim(componentProps.title.s) = <<>>
    THEN LinkTexts = {ViewOnAmazon}
    ELSE LinkTexts = {componentProps.title}

InfoCardRendered ==
  WasRendered /\ componentProps.component = "InfoCard" /\ rendered.kind = "return"

DifficultyIsValid ==
  componentProps.difficulty.t = "number" /\ componentProps.difficulty.n \in 1..5

TimeIsValid == componentProps.time.t = "number" /\ componentProps.time.n > 0

VideoUrlIsValid ==
  componentProps.videoUrl.t = "string" /\ trim(componentProps.videoUrl.s) # <<>>

(* The sections a card of the valid props holds, in their order.           *)
ExpectedSections ==
  (IF DifficultyIsValid THEN <<Str("difficultyContainer")>> ELSE <<>>)
    \o (IF TimeIsValid THEN <<Str("timeContainer")>> ELSE <<>>)
    \o (IF VideoUrlIsValid THEN <<Str("videoLink")>> ELSE <<>>)

SectionsOf(card) == [i \in 1..Len(card.children) |-> attr(card.children[i], "className")]

\* C24: InfoCard renders nothing (null) if and only if none of its props is
\* valid (difficulty in 1..5, time a number greater than 0, videoUrl a
\* string that is non-empty after trimming); otherwise it renders a card
\* that holds exactly the sections of the valid props.
C24_CardOfValidProps ==
  InfoCardRendered =>
    /\ rendered.value = Null <=> (~DifficultyIsValid /\ ~TimeIsValid /\ ~VideoUrlIsValid)
    /\ rendered.value # Null =>
         /\ IsElement(rendered.value)
         /\ attr(rendered.value, "className") = Str("infoCard")
         /\ SectionsOf(rendered.value) = ExpectedSections

(* A difficulty of 0 with a valid time and a blank videoUrl: one section.  *)
C24_Witness ==
  /\ InfoCardRendered
  /\ componentProps.difficulty = Num(0)
  /\ componentProps.time = Num(90)
  /\ componentProps.videoUrl = Str(<<" ","\t">>)
  /\ rendered.value # Null
  /\ SectionsOf(rendered.value) = <<Str("timeContainer")>>

TimeFormatted ==
  WasRendered /\ componentProps.component = "formatTime" /\ rendered.kind = "return"

Minutes == componentProps.minutes.n

(* The texts with a minutes part below 60 and no zero part next to hours.  *)
WellFormedTimes ==
  {Decimal(r) \o <<"m">> : r \in 0..59}
    \cup {Decimal(h) \o <<"h">> : h \in 1..(MaxMinutes \div 60 + 1)}
    \cup {Decimal(h) \o <<"h"," ">> \o Decimal(r) \o <<"m">> : h \in 1..(MaxMinutes \div 60 + 1), r \in 1..59}

\* C25: for a positive whole number of minutes m, formatTime(m) is '<m>m'
\* when m < 60, '<m div 60>h' when m is a multiple of 60 and
\* '<m div 60>h <m mod 60>m' otherwise (45 -> '45m', 90 -> '1h 30m',
\* 120 -> '2h'); for zero and negative m it is '0m'; the minutes part is
\* never 60 or more and a zero part is never printed next to hours.
C25_FormatTime ==
  (TimeFormatted /\ componentProps.minutes.t = "number") =>
    /\ rendered.value.t = "string"
    /\ rendered.value.s \in WellFormedTimes
    /\ Minutes <= 0 => rendered.value.s = <<"0","m">>
    /\ (Minutes > 0 /\ Minutes < 60) => rendered.value.s = Decimal(Minutes) \o <<"m">>
    /\ (Minutes >= 60 /\ Minutes % 60 = 0) => rendered.value.s = Decimal(Minutes \div 60) \o <<"h">>
    /\ (Minutes >= 60 /\ Minutes % 60 # 0) =>
         rendered.value.s = Decimal(Minutes \div 60) \o <<"h"," ">> \o Decimal(Minutes % 60) \o <<"m">>
    /\ Minutes = 45 => rendered.value.s = <<"4","5","m">>
    /\ Minutes = 90 => rendered.value.s = <<"1","h"," ","3","0","m">>
    /\ Minutes = 120 => rendered.value.s = <<"2","h">>

C25_Witness ==
  /\ TimeFormatted
  /\ componentProps.minutes = Num(90)
  /\ rendered.value = Str(<<"1","h"," ","3","0","m">>)

PlayerRendered ==
  /\ WasRendered /\ componentProps.component = "YouTube"
  /\ rendered.kind = "return" /\ IsElement(rendered.value)
  /\ Tagged(rendered.value, "iframe") # {}

IsEmbedUrl(v) ==
  /\ v.t = "string"
  /\ StartsWith(v.s, EmbedPrefix)
  /\ OnlyIdChars(Slice(v.s, Len(EmbedPrefix) + 1))

\* C29: whenever the YouTube component renders an iframe, its src is
\* 'https://www.youtube-nocookie.com/embed/' followed by a non-empty string
\* of characters A-Z a-z 0-9 _ - and nothing else: no '/', '?', '#', '&',
\* '.' after the prefix, and no host taken from the input.
C29_EmbedSrc ==
  PlayerRendered => \A n \in Tagged(rendered.value, "iframe") : IsEmbedUrl(attr(n, "src"))

(* A padded mixed-case URL with credentials and a port, embedded by its id. *)
C29_Witness ==
  /\ PlayerRendered
  /\ componentProps.url = Str(<<"\t"," ","h","t","t","p","s",":","/","/","y","o","u","t","u",".","b","e","@","W","w","w",".","Y","o","u","T","u","b","e",".","C","o","m",":","4","4","3","/","e","m","b","e","d","/","a","Z","7","_","-"," ">>)
  /\ \A n \in Tagged(rendered.value, "iframe") :
       attr(n, "src") = Str(EmbedPrefix \o <<"a","Z","7","_","-">>)

----------------------------------------------------------------------------
(* Properties of the order and of the shapes in parseYouTubeUrl            *)

YtError == IF ytResult.value.error = Null THEN "" ELSE ytResult.value.error.s

ShortHost == <<"y","o","u","t","u",".","b","e">>

LongHosts == YouTubeHosts \ {ShortHost}

(* The path has one of the shapes the long hosts are read by.              *)
SupportedShape ==
  \/ InputUrl.pathname = <<"/","w","a","t","c","h">>
  \/ StartsWith(InputUrl.pathname, <<"/","e","m","b","e","d","/">>)
  \/ StartsWith(InputUrl.pathname, <<"/","v","/">>)

(* The rank of a failure in the order of the checks; 0 for a success.      *)
RankOf(reason) ==
  CASE reason = ErrNoVideoUrl       -> 1
    [] reason = ErrInvalidUrlFormat -> 2
    [] reason = ErrNotYouTube       -> 3
    [] reason = ErrCouldNotExtract  -> 4
    [] reason = ErrInvalidVideoId   -> 5
    [] OTHER                        -> 0

(* The input is empty or white space only.                                 *)
BlankInput == \A i \in 1..Len(input.s) : input.s[i] \in JsWhiteSpace

ForeignHost == InputUrl.ok /\ InputHost \notin YouTubeHosts

\* C27: parseYouTubeUrl checks its failure conditions in a fixed order and
\* reports the first that applies: blank input, then unparseable URL, then
\* unsupported host, then no extractable identifier, then identifier
\* format.  A URL on an unsupported host is reported as not a YouTube link
\* whatever its path and query, and an identifier-format error is reported
\* only for a URL on a supported host in a supported path shape.
C27_FirstFailureReported ==
  (YtReturned /\ IsString(input)) =>
    /\ BlankInput => YtError = ErrNoVideoUrl
    /\ (~BlankInput /\ ~InputUrl.ok) => YtError = ErrInvalidUrlFormat
    /\ ForeignHost => YtError = ErrNotYouTube
    /\ (PlainUrl /\ arb.host \in OtherVideoHosts) => YtError = ErrNotYouTube
    /\ RankOf(YtError) >= 3 => (~BlankInput /\ InputUrl.ok)
    /\ RankOf(YtError) >= 4 => InputHost \in YouTubeHosts
    /\ YtError = ErrInvalidVideoId => (InputHost = ShortHost \/ SupportedShape)

(* An unsupported host with a path that would fail the later checks too.   *)
C27_Witness ==
  /\ YtReturned /\ PlainUrl
  /\ arb.host = <<"v","i","m","e","o",".","c","o","m">>
  /\ arb.shape = "shorts" /\ arb.token = <<"a"," ","b">>
  /\ YtError = ErrNotYouTube

(* The first segment of the parsed path.                                   *)
FirstSegment == Split(Slice(InputUrl.pathname, 2), {"/"})[1]

ResultOfId(id) ==
  IF id = <<>> THEN ParsedVideoId(Null, Str(ErrCouldNotExtract))
  ELSE IF OnlyIdChars(id) THEN ParsedVideoId(Str(id), Null)
  ELSE ParsedVideoId(Null, Str(ErrInvalidVideoId))

HttpUrlOn(hosts) ==
  /\ PlainUrl
  /\ toLowerCase(arb.scheme) \in {<<"h","t","t","p">>, <<"h","t","t","p","s">>}
  /\ toLowerCase(arb.host) \in hosts

\* C28: on youtu.be, parseYouTubeUrl takes the first path segment as the
\* identifier and never consults the query parameter v or the /embed/ and
\* /v/ prefixes (youtu.be/watch?v=X yields 'watch', youtu.be/embed/X yields
\* 'embed'); on the youtube.com hosts the /watch shape matches only the
\* path '/watch', and a path outside /watch, /embed/<id> and /v/<id> (such
\* as /shorts/<id> or /watch/) yields the not-extractable error.
C28_ShortHostAndShapes ==
  YtReturned =>
    /\ (IsString(input) /\ InputUrl.ok /\ InputHost = ShortHost)
         => ytResult.value = ResultOfId(FirstSegment)
    /\ (HttpUrlOn({ShortHost}) /\ arb.shape \in {"watch", "watchExtra", "watchSlash"})
         => ytResult.value = ParsedVideoId(Str(<<"w","a","t","c","h">>), Null)
    /\ (HttpUrlOn({ShortHost}) /\ arb.shape \in {"embed", "embedMore"} /\ OnlyIdChars(arb.token))
         => ytResult.value = ParsedVideoId(Str(<<"e","m","b","e","d">>), Null)
    /\ (HttpUrlOn({ShortHost}) /\ arb.shape = "v" /\ OnlyIdChars(arb.token))
         => ytResult.value = ParsedVideoId(Str(<<"v">>), Null)
    /\ (IsString(input) /\ InputUrl.ok /\ InputHost \in LongHosts /\ ~SupportedShape)
         => ytResult.value = ParsedVideoId(Null, Str(ErrCouldNotExtract))
    /\ (HttpUrlOn(LongHosts) /\ arb.shape \in {"shorts", "watchSlash", "none"})
         => ytResult.value = ParsedVideoId(Null, Str(ErrCouldNotExtract))

C28_Witness ==
  /\ YtReturned /\ HttpUrlOn({ShortHost})
  /\ arb.shape = "watch" /\ arb.token = <<"a","Z","7","_","-">>
  /\ ytResult.value = ParsedVideoId(Str(<<"w","a","t","c","h">>), Null)

----------------------------------------------------------------------------
(* Properties of the blog post page wrapper                                *)

WrapperRendered == out.wrapperProps # NotCalled

PassedProps == out.wrapperProps.value

Authors == page.content.metadata.authors

Hake == Str(<<"H","a","k","e">>)

(* The first author and its name, when the post has them.                  *)
FirstAuthorNamed ==
  /\ Authors # Undefined
  /\ Len(Authors.items) >= 1
  /\ Authors.items[1].name \notin {Undefined, Null, Str(<<>>)}

\* C23: BlogPostPageWrapper passes as authorName the name of the first
\* author of the post, and 'Hake' whenever the authors list is undefined,
\* is empty, or its first entry has no name; the names of later authors are
\* never used.
C23_FirstAuthorOrHake ==
  WrapperRendered =>
    /\ FirstAuthorNamed => PassedProps.authorName = Authors.items[1].name
    /\ ~FirstAuthorNamed => PassedProps.authorName = Hake
    /\ get(out.wrapperDoc.value, authorKey).at[nameKey] = PassedProps.authorName

(* A first author without a name before a named one.                       *)
C23_Witness ==
  /\ WrapperRendered
  /\ Authors = Arr(<< [name |-> Undefined] , [name |-> Str(<<"B","o","b">>)] >>)
  /\ PassedProps.authorName = Hake

DefaultSocialCard ==
  Str(SITE_CONFIG.url \o <<"/","i","m","g","/","l","o","c","a","l","h","a","k","e","-","s","o","c","i","a","l","-","c","a","r","d",".","p","n","g">>)

WrapperFmImage == frontMatterImage(page.content.frontMatter)

\* C30: every BlogPosting document produced through BlogPostPageWrapper
\* holds an image key: the wrapper always passes a non-empty image (the
\* front-matter image behind the site URL, or the site's default social
\* card), so the document is never built without image from a blog post
\* page; the description passed is always a string, the empty string when
\* the post metadata has none.
C30_ImageAlwaysPassed ==
  WrapperRendered =>
    /\ PassedProps.image.t = "string" /\ PassedProps.image.s # <<>>
    /\ PassedProps.image =
         IF WrapperFmImage \in {Undefined, Null, Str(<<>>)}
         THEN DefaultSocialCard
         ELSE Str(SITE_CONFIG.url \o WrapperFmImage.s)
    /\ hasOwn(out.wrapperDoc.value, imageKey)
    /\ get(out.wrapperDoc.value, imageKey) = PassedProps.image
    /\ PassedProps.description.t = "string"
    /\ page.content.metadata.description = Undefined => PassedProps.description = Str(<<>>)
    /\ page.content.metadata.description # Undefined
         => PassedProps.description = page.content.metadata.description

(* A post without front matter and without description.                    *)
C30_Witness ==
  /\ WrapperRendered
  /\ page.content.frontMatter = Undefined
  /\ page.content.metadata.description = Undefined
  /\ get(out.wrapperDoc.value, imageKey) = DefaultSocialCard
  /\ get(out.wrapperDoc.value, descriptionKey) = Str(<<>>)

----------------------------------------------------------------------------
(* Properties of the builders on the heap                                  *)

WrittenDocs == {w[1] : w \in writes}

DocObjects(i) == Reach(heap, docs[i].root)

\* C26: neither generateBlogPostingJsonLd nor generateArticleJsonLd modifies
\* its input record, and each call returns a freshly built document with
\* fresh author, publisher, logo and mainEntityOfPage sub-records: writing
\* into a document returned by one call changes neither the input nor the
\* document returned by any earlier or later call.
C26_InputKeptDocumentsFresh ==
  page.family = "heap" =>
    /\ heap[BlogPropsAt] = PropsObject(page.blog)
    /\ heap[ArticlePropsAt] = PropsObject(page.article)
    /\ \A i \in 1..Len(docs) :
         /\ DocObjects(i) \cap {BlogPropsAt, ArticlePropsAt} = {}
         /\ \A j \in 1..Len(docs) : i # j => DocObjects(i) \cap DocObjects(j) = {}
         /\ i \notin WrittenDocs => deref(heap, docs[i].root) = docs[i].returned

(* Two documents of the same builder, the publisher of the first and its   *)
(* logo written into, the second as it was returned.                       *)
C26_Witness ==
  /\ page.family = "heap"
  /\ Len(docs) = 2
  /\ docs[1].fn = "generateBlogPostingJsonLd" /\ docs[2].fn = "generateBlogPostingJsonLd"
  /\ docs[1].returned = docs[2].returned
  /\ WrittenDocs = {1} /\ Cardinality(writes) = 2
  /\ deref(heap, docs[1].root).at[publisherKey].at[nameKey] = WrittenValue
  /\ hasOwn(deref(heap, docs[1].root).at[publisherKey].at[logoKey], nameKey)
  /\ deref(heap, docs[2].root) = docs[2].returned
====
